---- MODULE Spec2Model ----
(***************************************************************************)
(* State-machine model of src/pong/pong_game.py: the classes Ball, Paddle, *)
(* Brick, BrickGrid and Game, and the main loop Game.run.                  *)
(*                                                                         *)
(* Drawing (graphics.py objects, texts, colours) carries no game state and *)
(* is left out; every field the game logic reads or writes is modelled.    *)
(*                                                                         *)
(* The module also models the two tic-tac-toe scripts,                     *)
(* src/tictactoe/tictactoe_lists.py and src/tictactoe_dict.py, run on the  *)
(* same standard input, and the session store of the LangChain chatbots    *)
(* (src/langchain/03_conversational_memory_chatbot.py and                  *)
(* src/langchain/04_streaming_chatbot.py).                                 *)
(***************************************************************************)
EXTENDS Integers, Sequences, FiniteSets, TLC

VARIABLES
    ball,        \* Game._ball        : [x, y, radius, dx, dy]
    paddle,      \* Game._paddle      : [x, y, width, height, speed]
    bricks,      \* BrickGrid._bricks : rows of [x, y, width, height, destroyed]
    score,       \* Game._score
    game_over,   \* Game._game_over
    running,     \* Game._running
    pc,          \* position of Game.run inside the current frame
    key,         \* the key checkKey() returned in the current frame
    over_at_key, \* Game._game_over as it was when that key was read
    reads,       \* number of checkKey() calls of the current frame
    frames,      \* number of frames completed since the initial state
    restarts,    \* number of restart_game() calls since the initial state
    ret,         \* value returned by the last call of a class-level run
    lists,       \* the process running tictactoe_lists.py: its globals
    dict,        \* the process running tictactoe_dict.py: its globals
    stdin,       \* the standard input both tic-tac-toe processes are given
    store,       \* the chatbots' store: session id -> history object
    heap,        \* the ChatMessageHistory objects created so far
    argv,        \* chatbot.py: the mode given on the command line
    conversation,      \* chatbot.py: the conversation dictionary
    api_request,       \* chatbot.py: the request prepare_bedrock_request built last
    assistant_message, \* chatbot.py: the text extracted from the last response
    script,      \* chatbot.py: the calls that remain of the running function
    turns,       \* chatbot.py: number of process_conversation_turn calls begun
    tasks,       \* 10_async_operations.py: the calls handed to asyncio.gather
    batch_start, \* 10_async_operations.py: i of "for i in range(0, len, batch_size)"
    all_results, \* 10_async_operations.py: all_results of the batch demonstration
    async_pc,    \* 10_async_operations.py: position of the running demonstration
    issued,      \* 10_async_operations.py: inputs given to ainvoke so far, in order
    sleeps,      \* 10_async_operations.py: number of asyncio.sleep(1) calls so far
    results,     \* 10_async_operations.py: results of the error handling demonstration
    successful,  \* 10_async_operations.py: successful of the same demonstration
    failed       \* 10_async_operations.py: failed of the same demonstration

vars == <<ball, paddle, bricks, score, game_over, running, pc, key,
          over_at_key, reads, frames, restarts, ret,
          lists, dict, stdin, store, heap,
          argv, conversation, api_request, assistant_message, script, turns,
          tasks, batch_start, all_results, async_pc, issued, sleeps,
          results, successful, failed>>

\* The variables of the Pong game, those of the tic-tac-toe processes, those
\* of the session store, those of the educational chatbot and those of the
\* asynchronous demonstrations.
pong_vars == <<ball, paddle, bricks, score, game_over, running, pc, key,
               over_at_key, reads, frames, restarts>>
tictactoe_vars == <<lists, dict, stdin>>
langchain_vars == <<store, heap>>
simplechatbot_vars == <<argv, conversation, api_request, assistant_message,
                        script, turns>>
async_vars == <<tasks, batch_start, all_results, async_pc, issued, sleeps,
                results, successful, failed>>

(***************************************************************************)
(* Bounds of the exploration.                                              *)
(***************************************************************************)
MaxFrames == 5        \* loop iterations explored from an initial state
MaxRestarts == 1      \* restart_game() calls explored
MaxRows == 2          \* rows of the grids of the class-level runs
MaxCols == 2          \* columns of the grids of the class-level runs
MaxMessages == 2      \* messages added to one history of the session store
MaxTurns == 2         \* turns of the educational chatbot in interactive mode

(***************************************************************************)
(* Program constants.                                                      *)
(***************************************************************************)
WIDTH == 800          \* Game._width
HEIGHT == 600         \* Game._height
BALL_X == 400
BALL_Y == 300
BALL_RADIUS == 10
BALL_SPEED == 3       \* |dx| and dy of a new ball
PADDLE_X == 400
PADDLE_Y == 550
PADDLE_WIDTH == 100
PADDLE_HEIGHT == 20
PADDLE_SPEED == 15
ROWS == 5
COLS == 10
BRICK_WIDTH == 80
BRICK_HEIGHT == 30
START_X == 0
START_Y == 50
POINTS == 10          \* score per brick

Keys == {"Left", "Right", "r", "q", ""}   \* "" : checkKey() found no key

(***************************************************************************)
(* The tic-tac-toe scripts tictactoe_lists.py and tictactoe_dict.py.       *)
(*                                                                         *)
(* Each script is one process.  Its record holds the script's globals      *)
(* (board, current_player, game_over, winner, moves_made), the place where *)
(* the process stands (pc: "input" at the move prompt, "play_again" at the *)
(* prompt after the game, "exit" after the last statement, "EOFError"      *)
(* after the traceback of an uncaught EOFError), the message the last      *)
(* prompt of the move loop was answered with (msg) and the result the game *)
(* end section printed (announced).  A line of input is a sequence of      *)
(* characters.                                                             *)
(***************************************************************************)
Marks == {"X", "O"}

DigitChars == <<"0", "1", "2", "3", "4", "5", "6", "7", "8", "9">>

IsDigit(c) == \E i \in 1..Len(DigitChars) : DigitChars[i] = c

DigitValue(c) == (CHOOSE i \in 1..Len(DigitChars) : DigitChars[i] = c) - 1

RECURSIVE DecimalValue(_)
DecimalValue(s) ==
    IF s = <<>> THEN 0
    ELSE 10 * DecimalValue(SubSeq(s, 1, Len(s) - 1)) + DigitValue(s[Len(s)])

\* int(player_input) for a line without blanks: an optional sign and
\* decimal digits give the number, anything else raises ValueError.
int(s) ==
    LET signed == s # <<>> /\ s[1] \in {"-", "+"}
        digits == IF signed THEN Tail(s) ELSE s
    IN  IF digits = <<>> \/ \E i \in 1..Len(digits) : ~IsDigit(digits[i])
        THEN [ok |-> FALSE, val |-> 0]
        ELSE [ok |-> TRUE,
              val |-> IF signed /\ s[1] = "-" THEN 0 - DecimalValue(digits)
                                              ELSE DecimalValue(digits)]

\* str.lower() on the letters the explored lines are made of.
lower(s) == [i \in 1..Len(s) |-> IF s[i] = "Y" THEN "y" ELSE s[i]]

\* The messages of the input validation.
MSG_VALID == "Valid move!"
MSG_TAKEN == "already taken"
MSG_RANGE == "Please enter a number between 1 and 9"
MSG_NUMBER == "Please enter a number, not letters or symbols"

\* tictactoe_lists.py up to its first prompt.
lists_start ==
    [board |-> <<<<"1", "2", "3">>, <<"4", "5", "6">>, <<"7", "8", "9">>>>,
     current_player |-> "X", game_over |-> FALSE, winner |-> "",
     moves_made |-> 0, pc |-> "input", msg |-> "", announced |-> ""]

\* Mutant of lists_validate: the row takes the remainder and the column the
\* quotient.
lists_validate_transposed(g, s) ==
    LET position == int(s)
        row == (position.val - 1) % 3
        col == (position.val - 1) \div 3
    IN  IF ~position.ok
        THEN [valid_move |-> FALSE, msg |-> MSG_NUMBER, row |-> 0, col |-> 0]
        ELSE IF position.val >= 1 /\ position.val <= 9
        THEN IF g.board[row + 1][col + 1] \notin Marks
             THEN [valid_move |-> TRUE, msg |-> MSG_VALID, row |-> row, col |-> col]
             ELSE [valid_move |-> FALSE, msg |-> MSG_TAKEN, row |-> row, col |-> col]
        ELSE [valid_move |-> FALSE, msg |-> MSG_RANGE, row |-> 0, col |-> 0]

\* One prompt of the inner loop "while not valid_move" of tictactoe_lists.py
\* answered with the line s: the three validation steps.
lists_validate(g, s) ==
    LET position == int(s)
        row == (position.val - 1) \div 3
        col == (position.val - 1) % 3
    IN  IF ~position.ok
        THEN [valid_move |-> FALSE, msg |-> MSG_NUMBER, row |-> 0, col |-> 0]
        ELSE IF position.val >= 1 /\ position.val <= 9
        THEN IF g.board[row + 1][col + 1] \notin Marks
             THEN [valid_move |-> TRUE, msg |-> MSG_VALID, row |-> row, col |-> col]
             ELSE [valid_move |-> FALSE, msg |-> MSG_TAKEN, row |-> row, col |-> col]
        ELSE [valid_move |-> FALSE, msg |-> MSG_RANGE, row |-> 0, col |-> 0]

\* "for i in range(3)" of the row check, from row i on: the mark of the
\* first row holding three equal marks, "" when the loop ends without one.
RECURSIVE lists_row_win(_, _)
lists_row_win(board, i) ==
    IF i > 2 THEN ""
    ELSE IF /\ board[i + 1][1] = board[i + 1][2]
            /\ board[i + 1][2] = board[i + 1][3]
            /\ board[i + 1][1] \in Marks
    THEN board[i + 1][1]
    ELSE lists_row_win(board, i + 1)

\* "for j in range(3)" of the column check, from column j on.
RECURSIVE lists_col_win(_, _)
lists_col_win(board, j) ==
    IF j > 2 THEN ""
    ELSE IF /\ board[1][j + 1] = board[2][j + 1]
            /\ board[2][j + 1] = board[3][j + 1]
            /\ board[1][j + 1] \in Marks
    THEN board[1][j + 1]
    ELSE lists_col_win(board, j + 1)

\* Mutant of lists_diagonal_win: the anti-diagonal is not tested.
lists_diagonal_win_main_only(board) ==
    IF board[1][1] = board[2][2] /\ board[2][2] = board[3][3] /\ board[1][1] \in Marks
    THEN board[1][1]
    ELSE ""

\* The two diagonal tests of tictactoe_lists.py.
lists_diagonal_win(board) ==
    IF board[1][1] = board[2][2] /\ board[2][2] = board[3][3] /\ board[1][1] \in Marks
    THEN board[1][1]
    ELSE IF board[1][3] = board[2][2] /\ board[2][2] = board[3][1] /\ board[1][3] \in Marks
    THEN board[1][3]
    ELSE ""

\* The win detection section of tictactoe_lists.py: rows, then columns if
\* no row won, then diagonals if no column won.  "" : game_over stays False.
lists_win_detection(board) ==
    LET rows == lists_row_win(board, 0)
        cols == lists_col_win(board, 0)
    IN  IF rows # "" THEN rows
        ELSE IF cols # "" THEN cols
        ELSE lists_diagonal_win(board)

\* Mutant of lists_tie_check: "not game_over" is not tested.
lists_tie_check_first(w, moves_made) ==
    IF moves_made = 9 THEN "Tie" ELSE w

\* "if not game_over and moves_made == 9" after the win detection that
\* left the winner w.
lists_tie_check(w, moves_made) ==
    IF w = "" /\ moves_made = 9 THEN "Tie" ELSE w

\* Mutant of switch_players: the turn passes to O and stays there.
switch_players_to_O(current_player) ==
    IF current_player = "X" THEN "O" ELSE "O"

\* "if current_player == 'X'" of the switch of players.
switch_players(current_player) ==
    IF current_player = "X" THEN "O" ELSE "X"

\* Mutant of lists_move: a move that ends the game is not counted.
lists_move_uncounted(g, row, col) ==
    LET board == [g.board EXCEPT ![row + 1][col + 1] = g.current_player]
        moves_made == g.moves_made + 1
        winner == lists_tie_check(lists_win_detection(board), moves_made)
        over == winner # ""
    IN  [g EXCEPT !.board = board,
                  !.moves_made = IF over THEN g.moves_made ELSE moves_made,
                  !.winner = winner,
                  !.game_over = over,
                  !.current_player = IF over THEN g.current_player
                                     ELSE switch_players(g.current_player),
                  !.announced = winner,
                  !.pc = IF over THEN "play_again" ELSE "input"]

\* The rest of the outer loop of tictactoe_lists.py after a valid move:
\* make the move, detect a win or a tie, switch players, and, when the game
\* is over, leave the loop and print the game end section.
lists_move(g, row, col) ==
    LET board == [g.board EXCEPT ![row + 1][col + 1] = g.current_player]
        moves_made == g.moves_made + 1
        winner == lists_tie_check(lists_win_detection(board), moves_made)
        over == winner # ""
    IN  [g EXCEPT !.board = board,
                  !.moves_made = moves_made,
                  !.winner = winner,
                  !.game_over = over,
                  !.current_player = IF over THEN g.current_player
                                     ELSE switch_players(g.current_player),
                  !.announced = winner,
                  !.pc = IF over THEN "play_again" ELSE "input"]

\* The line s arrives at the input() the process of tictactoe_lists.py
\* waits in.
lists_input(g, s) ==
    IF g.pc = "input"
    THEN LET v == lists_validate(g, s)
         IN  IF v.valid_move
             THEN lists_move([g EXCEPT !.msg = v.msg], v.row, v.col)
             ELSE [g EXCEPT !.msg = v.msg]
    ELSE IF g.pc = "play_again"
    THEN [g EXCEPT !.pc = "exit",
                   !.msg = IF lower(s) \in {<<"y">>, <<"y", "e", "s">>}
                           THEN "Starting a new game..."
                           ELSE "Thanks for playing Tic-Tac-Toe!"]
    ELSE g

\* The input() the process of tictactoe_lists.py waits in finds the end of
\* the input: EOFError, which no try block of the script encloses.
lists_eof(g) ==
    IF g.pc \in {"input", "play_again"} THEN [g EXCEPT !.pc = "EOFError"] ELSE g

\* tictactoe_dict.py up to its first prompt.
dict_start ==
    [board |-> [position \in 1..9 |-> DigitChars[position + 1]],
     current_player |-> "X", game_over |-> FALSE, winner |-> "",
     moves_made |-> 0, pc |-> "input", msg |-> "", announced |-> ""]

\* Mutant of dict_validate: the position is not tested for being taken.
dict_validate_no_taken(g, s) ==
    LET position == int(s)
    IN  IF ~position.ok
        THEN [valid_move |-> FALSE, msg |-> MSG_NUMBER, position |-> 0]
        ELSE IF position.val >= 1 /\ position.val <= 9
        THEN [valid_move |-> TRUE, msg |-> MSG_VALID, position |-> position.val]
        ELSE [valid_move |-> FALSE, msg |-> MSG_RANGE, position |-> 0]

\* One prompt of the inner loop of tictactoe_dict.py answered with s.
dict_validate(g, s) ==
    LET position == int(s)
    IN  IF ~position.ok
        THEN [valid_move |-> FALSE, msg |-> MSG_NUMBER, position |-> 0]
        ELSE IF position.val >= 1 /\ position.val <= 9
        THEN IF g.board[position.val] \notin Marks
             THEN [valid_move |-> TRUE, msg |-> MSG_VALID, position |-> position.val]
             ELSE [valid_move |-> FALSE, msg |-> MSG_TAKEN, position |-> position.val]
        ELSE [valid_move |-> FALSE, msg |-> MSG_RANGE, position |-> 0]

\* One test of the if/elif chain of tictactoe_dict.py.
dict_three(board, a, b, c) ==
    board[a] = board[b] /\ board[b] = board[c] /\ board[a] \in Marks

\* The win detection section of tictactoe_dict.py: the if/elif chain over
\* the eight combinations.  "" : no branch of the chain was taken.
dict_win_detection(board) ==
    IF dict_three(board, 1, 2, 3) THEN board[1]
    ELSE IF dict_three(board, 4, 5, 6) THEN board[4]
    ELSE IF dict_three(board, 7, 8, 9) THEN board[7]
    ELSE IF dict_three(board, 1, 4, 7) THEN board[1]
    ELSE IF dict_three(board, 2, 5, 8) THEN board[2]
    ELSE IF dict_three(board, 3, 6, 9) THEN board[3]
    ELSE IF dict_three(board, 1, 5, 9) THEN board[1]
    ELSE IF dict_three(board, 3, 5, 7) THEN board[3]
    ELSE ""

\* Mutant of dict_tie_check: the tie is declared one move early.
dict_tie_check_early(w, moves_made) ==
    IF w = "" /\ moves_made = 8 THEN "Tie" ELSE w

\* "elif moves_made == 9", the last branch of the same chain.
dict_tie_check(w, moves_made) ==
    IF w = "" /\ moves_made = 9 THEN "Tie" ELSE w

\* The rest of the outer loop of tictactoe_dict.py after a valid move and,
\* when the game is over, the game end section, which is the end of the
\* script.
dict_move(g, position) ==
    LET board == [g.board EXCEPT ![position] = g.current_player]
        moves_made == g.moves_made + 1
        winner == dict_tie_check(dict_win_detection(board), moves_made)
        over == winner # ""
    IN  [g EXCEPT !.board = board,
                  !.moves_made = moves_made,
                  !.winner = winner,
                  !.game_over = over,
                  !.current_player = IF over THEN g.current_player
                                     ELSE switch_players(g.current_player),
                  !.announced = winner,
                  !.pc = IF over THEN "exit" ELSE "input"]

\* The line s arrives at the input() the process of tictactoe_dict.py
\* waits in.
dict_input(g, s) ==
    IF g.pc = "input"
    THEN LET v == dict_validate(g, s)
         IN  IF v.valid_move
             THEN dict_move([g EXCEPT !.msg = v.msg], v.position)
             ELSE [g EXCEPT !.msg = v.msg]
    ELSE g

\* The input() of tictactoe_dict.py finds the end of the input.
dict_eof(g) ==
    IF g.pc = "input" THEN [g EXCEPT !.pc = "EOFError"] ELSE g

\* The standard input before anything was typed.
stdin_start == [line |-> <<>>, closed |-> FALSE]

\* Both scripts at their first prompt.
TicTacToeNotRun ==
    /\ lists = lists_start
    /\ dict = dict_start
    /\ stdin = stdin_start

(***************************************************************************)
(* The session store of the chatbots: store = {} and get_session_history.  *)
(*                                                                         *)
(* heap is the sequence of the ChatMessageHistory objects created so far;  *)
(* an object is known by its place in heap, and its value there is its     *)
(* list of messages.  store maps the session ids it knows to objects.      *)
(***************************************************************************)
\* ChatMessageHistory()
ChatMessageHistory == <<>>

\* store = {}
store_start == [session_id \in {} |-> 0]

\* Mutant of get_session_history: the membership test is left out, every
\* call stores a new history.
get_session_history_replace(st, hp, session_id) ==
    [store |-> [s \in DOMAIN st \cup {session_id} |->
                  IF s = session_id THEN Len(hp) + 1 ELSE st[s]],
     heap |-> Append(hp, ChatMessageHistory),
     val |-> Len(hp) + 1]

\* get_session_history(session_id) on the store st and the objects hp: the
\* store and the objects it leaves, and the object it returns.
get_session_history(st, hp, session_id) ==
    IF session_id \notin DOMAIN st
    THEN [store |-> [s \in DOMAIN st \cup {session_id} |->
                        IF s = session_id THEN Len(hp) + 1 ELSE st[s]],
          heap |-> Append(hp, ChatMessageHistory),
          val |-> Len(hp) + 1]
    ELSE [store |-> st, heap |-> hp, val |-> st[session_id]]

\* history.add_message(message)
add_message(history, message) == Append(history, message)

\* No chatbot has created a session yet.
ChatbotNotRun ==
    /\ store = store_start
    /\ heap = <<>>

(***************************************************************************)
(* src/simplechatbot/chatbot.py: the educational chatbot.  A conversation  *)
(* is the dictionary create_new_conversation builds; Bedrock is the        *)
(* environment: a request gets some reply or raises.  The variable script  *)
(* holds the calls the running function still has to make, the call        *)
(* "input" being the prompt of main's loop.                                *)
(***************************************************************************)
\* api_request before the first prepare_bedrock_request.
NoRequest == [messages |-> <<>>, inferenceConfig |-> "none"]

\* "inferenceConfig" of every request.
inferenceConfig == [maxTokens |-> 1000, temperature |-> "0.7", topP |-> "0.9"]

\* create_new_conversation() with the uuid and the time it draws
create_new_conversation(conversation_id, current_time) ==
    [conversation_id |-> conversation_id,
     created_at |-> current_time,
     messages |-> <<>>,
     metadata |-> [model |-> "amazon.nova-lite-v1:0", total_messages |-> 0]]

\* Mutant of add_message_to_conversation: the metadata is left as it was.
add_message_to_conversation_stale(conv, role, message, current_time) ==
    [conv EXCEPT !.messages =
        Append(@, [role |-> role, content |-> message, timestamp |-> current_time])]

\* add_message_to_conversation(conversation, role, message) at the time
\* current_time
add_message_to_conversation(conv, role, message, current_time) ==
    LET new_message == [role |-> role, content |-> message, timestamp |-> current_time]
        messages == Append(conv.messages, new_message)
    IN  [conv EXCEPT !.messages = messages,
                     !.metadata.total_messages = Len(messages)]

\* Mutant of prepare_bedrock_request: only the latest message is converted.
prepare_bedrock_request_latest(conv) ==
    [messages |-> [k \in 1..(IF conv.messages = <<>> THEN 0 ELSE 1) |->
                     [role |-> conv.messages[Len(conv.messages)].role,
                      content |-> <<[text |-> conv.messages[Len(conv.messages)].content]>>]],
     inferenceConfig |-> inferenceConfig]

\* prepare_bedrock_request(conversation): the timestamp is dropped and the
\* text is wrapped in a one-element content list.
prepare_bedrock_request(conv) ==
    [messages |-> [k \in 1..Len(conv.messages) |->
                     [role |-> conv.messages[k].role,
                      content |-> <<[text |-> conv.messages[k].content]>>]],
     inferenceConfig |-> inferenceConfig]

\* The body Nova Lite answers with when its reply is text.
bedrock_response(text) ==
    [output |-> [message |-> [role |-> "assistant", content |-> <<[text |-> text]>>]]]

\* extract_response_content(bedrock_response)
extract_response_content(response) == response.output.message.content[1].text

\* The calls of process_conversation_turn(conversation, user_input, client).
process_conversation_turn(user_input) ==
    <<[call |-> "add_message_to_conversation", role |-> "user", message |-> user_input],
      [call |-> "prepare_bedrock_request"],
      [call |-> "send_to_bedrock"],
      [call |-> "add_message_to_conversation", role |-> "assistant"]>>

\* no_history_request of demonstrate_llm_statelessness
no_history_request ==
    [messages |-> <<[role |-> "user",
                     content |-> <<[text |-> "Do you remember my name?"]>>]>>,
     inferenceConfig |-> inferenceConfig]

\* The calls of demonstrate_llm_statelessness() after the conversation and
\* the client are created.
demonstrate_llm_statelessness ==
    process_conversation_turn("My name is Alice. What's your name?")
    \o process_conversation_turn("Do you remember my name?")
    \o <<[call |-> "send_to_bedrock", request |-> no_history_request]>>

\* chatbot.py is not running.
SimpleChatbotNotRun ==
    /\ argv = "none"
    /\ conversation = "none"
    /\ api_request = NoRequest
    /\ assistant_message = ""
    /\ script = <<>>
    /\ turns = 0

(***************************************************************************)
(* src/langchain/10_async_operations.py: the batch demonstration and the   *)
(* error handling demonstration that main awaits one after the other.  A   *)
(* call handed to asyncio.gather is "created", then "in_flight" once it    *)
(* awaits chain.ainvoke, then "done" with the dictionary async_llm_call    *)
(* returned.  The event loop starts the calls of a gather in the order     *)
(* they were passed; the model answers them in any order.                  *)
(***************************************************************************)
\* large_batch of demonstrate_batch_processing_with_limits: the services
large_batch ==
    <<"AWS Lambda", "Amazon S3", "Amazon DynamoDB", "Amazon RDS", "Amazon EC2",
      "Amazon VPC", "AWS IAM", "Amazon CloudWatch", "AWS CloudTrail", "Amazon SNS">>

\* batch_size = 3
batch_size == 3

\* mixed_requests of demonstrate_error_handling_patterns: the topics
mixed_requests == <<"AWS Lambda", "", "Amazon S3", "A * 1000", "DynamoDB">>

\* What awaiting chain.ainvoke(input_data) does: it returns a response
\* after some time or raises an exception.
Outcomes ==
    {[raised |-> FALSE, response |-> "text", duration |-> 1],
     [raised |-> TRUE,
      exception |-> [type |-> "ValidationException",
                     message |-> "Malformed input request"]]}

\* str(e) of an exception: its message, without the name of its type.
str_exception(e) == e.message

\* Mutant of async_llm_call: the except branch reports success.
async_llm_call_masks(input_data, call_id, outcome) ==
    IF ~outcome.raised
    THEN [call_id |-> call_id, success |-> TRUE, response |-> outcome.response,
          duration |-> outcome.duration, input |-> input_data]
    ELSE [call_id |-> call_id, success |-> TRUE, error |-> str_exception(outcome.exception),
          duration |-> 0, input |-> input_data]

\* async_llm_call(llm, prompt_template, input_data, call_id) when the model
\* call does what outcome says: the dictionary returned.
async_llm_call(input_data, call_id, outcome) ==
    IF ~outcome.raised
    THEN [call_id |-> call_id, success |-> TRUE, response |-> outcome.response,
          duration |-> outcome.duration, input |-> input_data]
    ELSE [call_id |-> call_id, success |-> FALSE, error |-> str_exception(outcome.exception),
          duration |-> 0, input |-> input_data]

\* 10_async_operations.py is not running.
AsyncNotRun ==
    /\ tasks = <<>>
    /\ batch_start = 0
    /\ all_results = <<>>
    /\ async_pc = "not_run"
    /\ issued = <<>>
    /\ sleeps = 0
    /\ results = <<>>
    /\ successful = <<>>
    /\ failed = <<>>

(***************************************************************************)
(* class Ball                                                              *)
(***************************************************************************)
\* random.choice([-3, 3])
BallDx == {-BALL_SPEED, BALL_SPEED}

Ball_init(x, y, radius, dx) ==
    [x |-> x, y |-> y, radius |-> radius, dx |-> dx, dy |-> BALL_SPEED]

move(b) == [b EXCEPT !.x = b.x + b.dx, !.y = b.y + b.dy]

bounce_horizontal(b) == [b EXCEPT !.dx = -b.dx]

\* Mutant of bounce_vertical: "-=" typed for "= -".
bounce_vertical_typo(b) == [b EXCEPT !.dy = b.dy - b.dy]

bounce_vertical(b) == [b EXCEPT !.dy = -b.dy]

\* Mutant of check_wall_collision: a fourth test bounces the ball off the
\* bottom edge.
check_wall_collision_floor(b, width, height) ==
    LET b1 == IF b.x - b.radius <= 0
              THEN bounce_horizontal([b EXCEPT !.x = b.radius])
              ELSE b
        b2 == IF b1.x + b1.radius >= width
              THEN bounce_horizontal([b1 EXCEPT !.x = width - b1.radius])
              ELSE b1
        b3 == IF b2.y - b2.radius <= 0
              THEN bounce_vertical([b2 EXCEPT !.y = b2.radius])
              ELSE b2
        b4 == IF b3.y + b3.radius >= height
              THEN bounce_vertical([b3 EXCEPT !.y = height - b3.radius])
              ELSE b3
    IN  b4

\* Mutant of check_wall_collision: the walls bounce the ball but do not put
\* it back inside.
check_wall_collision_noclamp(b, width, height) ==
    LET b1 == IF b.x - b.radius <= 0 THEN bounce_horizontal(b) ELSE b
        b2 == IF b1.x + b1.radius >= width THEN bounce_horizontal(b1) ELSE b1
        b3 == IF b2.y - b2.radius <= 0 THEN bounce_vertical(b2) ELSE b2
    IN  b3

check_wall_collision(b, width, height) ==
    LET b1 == IF b.x - b.radius <= 0
              THEN bounce_horizontal([b EXCEPT !.x = b.radius])
              ELSE b
        b2 == IF b1.x + b1.radius >= width
              THEN bounce_horizontal([b1 EXCEPT !.x = width - b1.radius])
              ELSE b1
        b3 == IF b2.y - b2.radius <= 0
              THEN bounce_vertical([b2 EXCEPT !.y = b2.radius])
              ELSE b2
    IN  b3

\* Mutant of is_below_screen: ">=" for ">".
is_below_screen_inclusive(b, height) == b.y >= height

is_below_screen(b, height) == b.y > height

(***************************************************************************)
(* class Paddle                                                            *)
(***************************************************************************)
Paddle_init(x, y, width, height) ==
    [x |-> x, y |-> y, width |-> width, height |-> height, speed |-> PADDLE_SPEED]

\* Mutant of move_left: the test forgets the half width of the paddle.
move_left_centre(p) ==
    IF p.x > p.speed
    THEN [p EXCEPT !.x = p.x - p.speed]
    ELSE p

move_left(p) ==
    IF p.x - (p.width \div 2) > p.speed
    THEN [p EXCEPT !.x = p.x - p.speed]
    ELSE p

move_right(p, screen_width) ==
    IF p.x + (p.width \div 2) < screen_width - p.speed
    THEN [p EXCEPT !.x = p.x + p.speed]
    ELSE p

\* Mutant of Paddle.check_ball_collision: the horizontal test takes the
\* ball's radius into account.
Paddle_check_ball_collision_disc(p, b) ==
    /\ b.y + b.radius >= p.y - (p.height \div 2)
    /\ b.y - b.radius <= p.y + (p.height \div 2)
    /\ b.x + b.radius >= p.x - (p.width \div 2)
    /\ b.x - b.radius <= p.x + (p.width \div 2)

Paddle_check_ball_collision(p, b) ==
    /\ b.y + b.radius >= p.y - (p.height \div 2)
    /\ b.y - b.radius <= p.y + (p.height \div 2)
    /\ b.x >= p.x - (p.width \div 2)
    /\ b.x <= p.x + (p.width \div 2)

(***************************************************************************)
(* class Brick                                                             *)
(***************************************************************************)
Brick_init(x, y, width, height) ==
    [x |-> x, y |-> y, width |-> width, height |-> height, destroyed |-> FALSE]

\* Mutant of Brick.check_ball_collision: the destroyed flag is not tested.
Brick_check_ball_collision_ghost(k, b) ==
    /\ b.x + b.radius >= k.x
    /\ b.x - b.radius <= k.x + k.width
    /\ b.y + b.radius >= k.y
    /\ b.y - b.radius <= k.y + k.height

Brick_check_ball_collision(k, b) ==
    IF k.destroyed
    THEN FALSE
    ELSE /\ b.x + b.radius >= k.x
         /\ b.x - b.radius <= k.x + k.width
         /\ b.y + b.radius >= k.y
         /\ b.y - b.radius <= k.y + k.height

\* Mutant of destroy: the flag is flipped, not set.
destroy_toggle(k) == [k EXCEPT !.destroyed = ~k.destroyed]

destroy(k) == IF ~k.destroyed THEN [k EXCEPT !.destroyed = TRUE] ELSE k

is_destroyed(k) == k.destroyed

(***************************************************************************)
(* class BrickGrid                                                         *)
(***************************************************************************)
BrickGrid_init(rows, cols, brick_width, brick_height, start_x, start_y) ==
    [row \in 1..rows |->
        [col \in 1..cols |->
            Brick_init(start_x + (col - 1) * brick_width,
                       start_y + (row - 1) * brick_height,
                       brick_width, brick_height)]]

\* Mutant of ScanHit: the loops are nested the other way round, columns
\* outside and rows inside.
RECURSIVE ScanHit_columns(_, _, _, _)
ScanHit_columns(grid, b, row, col) ==
    IF col > Len(grid[1]) THEN <<0, 0>>
    ELSE IF row > Len(grid) THEN ScanHit_columns(grid, b, 1, col + 1)
    ELSE IF Brick_check_ball_collision(grid[row][col], b) THEN <<row, col>>
    ELSE ScanHit_columns(grid, b, row + 1, col)

\* The nested for loops of check_ball_collision, resumed at brick (row, col):
\* the position of the first brick, in scan order, whose collision test
\* succeeds, or <<0, 0>> when the loops run to their end.
RECURSIVE ScanHit(_, _, _, _)
ScanHit(grid, b, row, col) ==
    IF row > Len(grid) THEN <<0, 0>>
    ELSE IF col > Len(grid[row]) THEN ScanHit(grid, b, row + 1, 1)
    ELSE IF Brick_check_ball_collision(grid[row][col], b) THEN <<row, col>>
    ELSE ScanHit(grid, b, row, col + 1)

\* Mutant of BrickGrid_check_ball_collision: no return inside the loops,
\* every brick that is hit is destroyed.
BrickGrid_check_ball_collision_all(grid, b) ==
    [hit |-> \E row \in 1..Len(grid) : \E col \in 1..Len(grid[row]) :
                Brick_check_ball_collision(grid[row][col], b),
     bricks |-> [row \in 1..Len(grid) |-> [col \in 1..Len(grid[row]) |->
                    IF Brick_check_ball_collision(grid[row][col], b)
                    THEN destroy(grid[row][col])
                    ELSE grid[row][col]]]]

\* check_ball_collision: the returned value and the grid it leaves behind.
BrickGrid_check_ball_collision(grid, b) ==
    LET h == ScanHit(grid, b, 1, 1)
    IN  IF h = <<0, 0>>
        THEN [hit |-> FALSE, bricks |-> grid]
        ELSE [hit |-> TRUE,
              bricks |-> [grid EXCEPT ![h[1]][h[2]] = destroy(grid[h[1]][h[2]])]]

\* Mutant of ScanAllDestroyed: "return True" indented into the outer loop,
\* so that only the first row is looked at.
RECURSIVE ScanAllDestroyed_firstrow(_, _, _)
ScanAllDestroyed_firstrow(grid, row, col) ==
    IF row > Len(grid) THEN TRUE
    ELSE IF col > Len(grid[row]) THEN TRUE
    ELSE IF ~is_destroyed(grid[row][col]) THEN FALSE
    ELSE ScanAllDestroyed_firstrow(grid, row, col + 1)

\* The nested for loops of all_destroyed, resumed at brick (row, col).
RECURSIVE ScanAllDestroyed(_, _, _)
ScanAllDestroyed(grid, row, col) ==
    IF row > Len(grid) THEN TRUE
    ELSE IF col > Len(grid[row]) THEN ScanAllDestroyed(grid, row + 1, 1)
    ELSE IF ~is_destroyed(grid[row][col]) THEN FALSE
    ELSE ScanAllDestroyed(grid, row, col + 1)

all_destroyed(grid) == ScanAllDestroyed(grid, 1, 1)

(***************************************************************************)
(* class Game                                                              *)
(***************************************************************************)
NewBall(dx) == Ball_init(BALL_X, BALL_Y, BALL_RADIUS, dx)

NewPaddle == Paddle_init(PADDLE_X, PADDLE_Y, PADDLE_WIDTH, PADDLE_HEIGHT)

NewGrid == BrickGrid_init(ROWS, COLS, BRICK_WIDTH, BRICK_HEIGHT, START_X, START_Y)

\* What Game.run has done of the current frame when nothing of it has run.
FrameStart ==
    /\ pc = "input"
    /\ key = ""
    /\ over_at_key = FALSE
    /\ reads = 0

\* Game.__init__
Init ==
    /\ \E dx \in BallDx : ball = NewBall(dx)
    /\ paddle = NewPaddle
    /\ bricks = NewGrid
    /\ running = TRUE
    /\ game_over = FALSE
    /\ score = 0
    /\ FrameStart
    /\ frames = 0
    /\ restarts = 0
    /\ ret = [op |-> "none"]
    /\ TicTacToeNotRun
    /\ ChatbotNotRun
    /\ SimpleChatbotNotRun
    /\ AsyncNotRun

\* Mutant of restart_game: the score is not reset.
restart_game_keeps_score ==
    /\ \E dx \in BallDx : ball' = NewBall(dx)
    /\ paddle' = NewPaddle
    /\ bricks' = NewGrid
    /\ running' = TRUE
    /\ game_over' = FALSE
    /\ score' = score
    /\ restarts' = restarts + 1

\* Game.restart_game
restart_game ==
    /\ \E dx \in BallDx : ball' = NewBall(dx)
    /\ paddle' = NewPaddle
    /\ bricks' = NewGrid
    /\ running' = TRUE
    /\ game_over' = FALSE
    /\ score' = 0
    /\ restarts' = restarts + 1

\* Mutant of AfterInput: the test of _game_over is inverted.
AfterInput_inverted(over) == IF over THEN "move" ELSE "sleep"

\* Mutant of AfterInput: Game.run calls update_game without testing
\* _game_over.
AfterInput_always(over) == "move"

\* The step of Game.run that follows handle_input: update_game is entered
\* only when the game is not over, otherwise the frame ends.
AfterInput(over) == IF over THEN "sleep" ELSE "move"

\* Game.handle_input when checkKey() returns k, and the test of _game_over
\* that follows it in Game.run.
Handle(k) ==
    /\ key' = k
    /\ over_at_key' = game_over
    /\ reads' = reads + 1
    /\ IF k = "Left"
       THEN /\ paddle' = move_left(paddle)
            /\ UNCHANGED <<ball, bricks, score, game_over, running, restarts>>
       ELSE IF k = "Right"
       THEN /\ paddle' = move_right(paddle, WIDTH)
            /\ UNCHANGED <<ball, bricks, score, game_over, running, restarts>>
       ELSE IF k = "r"
       THEN /\ restarts < MaxRestarts
            /\ restart_game
       ELSE IF k = "q"
       THEN /\ running' = FALSE
            /\ UNCHANGED <<ball, paddle, bricks, score, game_over, restarts>>
       ELSE UNCHANGED <<ball, paddle, bricks, score, game_over, running, restarts>>
    /\ pc' = AfterInput(game_over')
    /\ UNCHANGED <<frames, ret, tictactoe_vars, langchain_vars,
                   simplechatbot_vars, async_vars>>

\* Mutant of HandleInput: "while True", the running flag is not tested.
HandleInput_while_true ==
    /\ pc = "input"
    /\ frames < MaxFrames
    /\ \E k \in Keys : Handle(k)

\* One iteration of the while loop of Game.run begins: _running holds and
\* handle_input reads whatever key the player pressed.
HandleInput ==
    /\ pc = "input"
    /\ running
    /\ frames < MaxFrames
    /\ \E k \in Keys : Handle(k)

\* update_game, statement by statement.
UpdateMove ==
    /\ pc = "move"
    /\ ball' = move(ball)
    /\ pc' = "wall"
    /\ UNCHANGED <<paddle, bricks, score, game_over, running, key, over_at_key,
                   reads, frames, restarts, ret,
                   tictactoe_vars, langchain_vars,
                   simplechatbot_vars, async_vars>>

UpdateWall ==
    /\ pc = "wall"
    /\ ball' = check_wall_collision(ball, WIDTH, HEIGHT)
    /\ pc' = "paddle"
    /\ UNCHANGED <<paddle, bricks, score, game_over, running, key, over_at_key,
                   reads, frames, restarts, ret,
                   tictactoe_vars, langchain_vars,
                   simplechatbot_vars, async_vars>>

UpdatePaddle ==
    /\ pc = "paddle"
    /\ ball' = IF Paddle_check_ball_collision(paddle, ball)
               THEN bounce_vertical(ball)
               ELSE ball
    /\ pc' = "brick"
    /\ UNCHANGED <<paddle, bricks, score, game_over, running, key, over_at_key,
                   reads, frames, restarts, ret,
                   tictactoe_vars, langchain_vars,
                   simplechatbot_vars, async_vars>>

\* Mutant of UpdateBrick: a hit scores one point instead of POINTS.
UpdateBrick_unit_score ==
    /\ pc = "brick"
    /\ LET res == BrickGrid_check_ball_collision(bricks, ball)
       IN  /\ bricks' = res.bricks
           /\ ball' = IF res.hit THEN bounce_vertical(ball) ELSE ball
           /\ score' = IF res.hit THEN score + 1 ELSE score
    /\ pc' = "loss"
    /\ UNCHANGED <<paddle, game_over, running, key, over_at_key,
                   reads, frames, restarts, ret,
                   tictactoe_vars, langchain_vars,
                   simplechatbot_vars, async_vars>>

UpdateBrick ==
    /\ pc = "brick"
    /\ LET res == BrickGrid_check_ball_collision(bricks, ball)
       IN  /\ bricks' = res.bricks
           /\ ball' = IF res.hit THEN bounce_vertical(ball) ELSE ball
           /\ score' = IF res.hit THEN score + POINTS ELSE score
    /\ pc' = "loss"
    /\ UNCHANGED <<paddle, game_over, running, key, over_at_key,
                   reads, frames, restarts, ret,
                   tictactoe_vars, langchain_vars,
                   simplechatbot_vars, async_vars>>

UpdateLoss ==
    /\ pc = "loss"
    /\ game_over' = IF is_below_screen(ball, HEIGHT) THEN TRUE ELSE game_over
    /\ pc' = "win"
    /\ UNCHANGED <<ball, paddle, bricks, score, running, key, over_at_key,
                   reads, frames, restarts, ret,
                   tictactoe_vars, langchain_vars,
                   simplechatbot_vars, async_vars>>

UpdateWin ==
    /\ pc = "win"
    /\ game_over' = IF all_destroyed(bricks) THEN TRUE ELSE game_over
    /\ pc' = "sleep"
    /\ UNCHANGED <<ball, paddle, bricks, score, running, key, over_at_key,
                   reads, frames, restarts, ret,
                   tictactoe_vars, langchain_vars,
                   simplechatbot_vars, async_vars>>

\* time.sleep(0.02): the frame ends and the while test comes next.
Sleep ==
    /\ pc = "sleep"
    /\ frames' = frames + 1
    /\ pc' = "input"
    /\ key' = ""
    /\ over_at_key' = FALSE
    /\ reads' = 0
    /\ UNCHANGED <<ball, paddle, bricks, score, game_over, running, restarts, ret,
                   tictactoe_vars, langchain_vars,
                   simplechatbot_vars, async_vars>>

\* The while test finds _running false: the loop is left, the window waits
\* for a click and closes.
LoopExit ==
    /\ pc = "input"
    /\ ~running
    /\ pc' = "closed"
    /\ UNCHANGED <<ball, paddle, bricks, score, game_over, running, key,
                   over_at_key, reads, frames, restarts, ret,
                   tictactoe_vars, langchain_vars,
                   simplechatbot_vars, async_vars>>

Update ==
    \/ UpdateMove
    \/ UpdateWall
    \/ UpdatePaddle
    \/ UpdateBrick
    \/ UpdateLoss
    \/ UpdateWin

Next ==
    \/ HandleInput
    \/ Update
    \/ Sleep
    \/ LoopExit

\* A game from the constructor, MaxFrames frames of it, any keys.
Spec == Init /\ [][Next]_vars

(***************************************************************************)
(* A recorded session.  One player plays the first game by keeping the     *)
(* paddle under the ball until every brick is gone, presses r, steers the  *)
(* paddle of the second game to x = 580 and lets the ball fall, then       *)
(* quits.  SpecRecord is that session from the constructor to the closed   *)
(* window; the states below are states of it, at the start of the frames   *)
(* named (frames counted from 1 over the whole session), and Recorded*     *)
(* says that the session passes through each of them.                      *)
(***************************************************************************)
\* The key the player presses.  First game: r once it is over, else Right
\* or Left when the ball is more than 20 to that side of the paddle's centre.
\* Second game: Right until the paddle is at x = 580, then nothing, and q
\* once it is over.
Player ==
    IF restarts = 0
    THEN IF game_over THEN "r"
         ELSE IF ball.x > paddle.x + 20 THEN "Right"
         ELSE IF ball.x < paddle.x - 20 THEN "Left"
         ELSE ""
    ELSE IF game_over THEN "q"
         ELSE IF paddle.x < 580 THEN "Right"
         ELSE ""

\* Both balls of the session start to the right.
HandleRecorded ==
    /\ pc = "input"
    /\ running
    /\ Handle(Player)
    /\ restarts' # restarts => ball'.dx = BALL_SPEED

InitRecord == Init /\ ball.dx = BALL_SPEED

NextRecord ==
    \/ HandleRecorded
    \/ Update
    \/ Sleep
    \/ LoopExit

SpecRecord == InitRecord /\ [][NextRecord]_vars

AllCells == (1..ROWS) \X (1..COLS)

\* frame 75: two frames before the ball reaches the paddle
AtPaddleBounce ==
    [ball |-> [x |-> 622, y |-> 522, radius |-> BALL_RADIUS, dx |-> 3, dy |-> 3],
     paddle_x |-> 610, destroyed |-> {},
     score |-> 0, game_over |-> FALSE]

\* frame 128: two frames before the ball reaches the right wall
AtRightWall ==
    [ball |-> [x |-> 781, y |-> 381, radius |-> BALL_RADIUS, dx |-> 3, dy |-> -3],
     paddle_x |-> 745, destroyed |-> {},
     score |-> 0, game_over |-> FALSE]

\* frame 182: two frames before the first brick is hit
AtFirstBrick ==
    [ball |-> [x |-> 637, y |-> 219, radius |-> BALL_RADIUS, dx |-> -3, dy |-> -3],
     paddle_x |-> 655, destroyed |-> {},
     score |-> 0, game_over |-> FALSE]

\* frame 388: two frames before the ball reaches the left wall, paddle at its left stop
AtLeftWall ==
    [ball |-> [x |-> 19, y |-> 243, radius |-> BALL_RADIUS, dx |-> -3, dy |-> -3],
     paddle_x |-> 55, destroyed |-> {<<5, 8>>},
     score |-> 10, game_over |-> FALSE]

\* frame 1038: two frames before the ball touches two live bricks at once
AtTwoBricks ==
    [ball |-> [x |-> 391, y |-> 219, radius |-> BALL_RADIUS, dx |-> 3, dy |-> -3],
     paddle_x |-> 370, destroyed |-> {<<5, 1>>, <<5, 4>>, <<5, 8>>, <<5, 9>>},
     score |-> 40, game_over |-> FALSE]

\* frame 8625: two frames before the ball first reaches the top wall
AtTopWall ==
    [ball |-> [x |-> 268, y |-> 18, radius |-> BALL_RADIUS, dx |-> -3, dy |-> -3],
     paddle_x |-> 280, destroyed |-> AllCells \ {<<1, 1>>, <<1, 2>>, <<1, 3>>, <<1, 6>>, <<1, 7>>,
                              <<2, 6>>, <<2, 7>>, <<3, 7>>},
     score |-> 420, game_over |-> FALSE]

\* frame 10447: two frames before the last brick is hit
AtLastBrick ==
    [ball |-> [x |-> 538, y |-> 61, radius |-> BALL_RADIUS, dx |-> 3, dy |-> 3],
     paddle_x |-> 520, destroyed |-> AllCells \ {<<2, 7>>},
     score |-> 490, game_over |-> FALSE]

\* frame 10526: second game, the ball enters the paddle band just right of the paddle
AtNearMiss ==
    [ball |-> [x |-> 628, y |-> 528, radius |-> BALL_RADIUS, dx |-> 3, dy |-> 3],
     paddle_x |-> 580, destroyed |-> {},
     score |-> 0, game_over |-> FALSE]

\* frame 10548: second game, two frames before the ball leaves the screen
AtFalling ==
    [ball |-> [x |-> 694, y |-> 594, radius |-> BALL_RADIUS, dx |-> 3, dy |-> 3],
     paddle_x |-> 580, destroyed |-> {},
     score |-> 0, game_over |-> FALSE]

Recorded ==
    {AtPaddleBounce, AtRightWall, AtFirstBrick, AtLeftWall, AtTwoBricks,
     AtTopWall, AtLastBrick, AtNearMiss, AtFalling}

\* The grid of a game in which exactly the bricks at the cells of D are gone.
GridWith(D) ==
    [row \in 1..ROWS |->
        [col \in 1..COLS |->
            IF <<row, col>> \in D THEN destroy(NewGrid[row][col])
            ELSE NewGrid[row][col]]]

\* The game is in recorded state c, at the start of a frame.
At(c) ==
    /\ ball = c.ball
    /\ paddle = [NewPaddle EXCEPT !.x = c.paddle_x]
    /\ bricks = GridWith(c.destroyed)
    /\ score = c.score
    /\ game_over = c.game_over
    /\ running = TRUE
    /\ FrameStart

InitReplay ==
    /\ \E c \in Recorded : At(c)
    /\ frames = 0
    /\ restarts = 0
    /\ ret = [op |-> "none"]
    /\ TicTacToeNotRun
    /\ ChatbotNotRun
    /\ SimpleChatbotNotRun
    /\ AsyncNotRun

\* The game taken up at a recorded state, MaxFrames frames of it, any keys.
SpecReplay == InitReplay /\ [][Next]_vars

\* Each of these is violated under SpecRecord: the session passes through
\* the recorded state.
NotYetAtPaddleBounce == ~At(AtPaddleBounce)
NotYetAtRightWall == ~At(AtRightWall)
NotYetAtFirstBrick == ~At(AtFirstBrick)
NotYetAtLeftWall == ~At(AtLeftWall)
NotYetAtTwoBricks == ~At(AtTwoBricks)
NotYetAtTopWall == ~At(AtTopWall)
NotYetAtLastBrick == ~At(AtLastBrick)
NotYetAtNearMiss == ~At(AtNearMiss)
NotYetAtFalling == ~At(AtFalling)

(***************************************************************************)
(* Class-level runs.  The methods of BrickGrid and Brick are called in any *)
(* order on a grid with the game's brick size and origin and a ball placed *)
(* clear of the bricks, at the very edge of their reach, or touching       *)
(* several of them at once.  ret holds what the last call was and what it  *)
(* returned.  SpecGrid: a grid of any size up to MaxRows x MaxCols with    *)
(* any of its bricks already destroyed, and the methods of BrickGrid.      *)
(* SpecBrick: a new grid of a single brick, and the methods of that brick  *)
(* as well.                                                                *)
(***************************************************************************)
\* Ball centre x: inside column 1; one short of column 2's reach; touching
\* column 2 from the left; touching column 1 from the right; one past column
\* 1's reach; one past column 2's reach.
GridBallXs ==
    {BRICK_WIDTH \div 2,
     BRICK_WIDTH - BALL_RADIUS - 1, BRICK_WIDTH - BALL_RADIUS,
     BRICK_WIDTH + BALL_RADIUS, BRICK_WIDTH + BALL_RADIUS + 1,
     2 * BRICK_WIDTH + BALL_RADIUS + 1}

\* Ball centre y: the same places for rows 1 and 2, and one short of row 1.
GridBallYs ==
    {START_Y - BALL_RADIUS - 1, START_Y - BALL_RADIUS,
     START_Y + BRICK_HEIGHT - BALL_RADIUS - 1, START_Y + BRICK_HEIGHT - BALL_RADIUS,
     START_Y + BRICK_HEIGHT + BALL_RADIUS, START_Y + BRICK_HEIGHT + BALL_RADIUS + 1,
     START_Y + 2 * BRICK_HEIGHT + BALL_RADIUS + 1}

\* The (row, col) positions of a grid.
Cells(grid) == (1..Len(grid)) \X (1..Len(grid[1]))

InitClass ==
    /\ \E x \in GridBallXs, y \in GridBallYs :
         ball = Ball_init(x, y, BALL_RADIUS, BALL_SPEED)
    /\ paddle = NewPaddle
    /\ score = 0
    /\ game_over = FALSE
    /\ running = TRUE
    /\ pc = "class"
    /\ key = ""
    /\ over_at_key = FALSE
    /\ reads = 0
    /\ frames = 0
    /\ restarts = 0
    /\ ret = [op |-> "none"]
    /\ TicTacToeNotRun
    /\ ChatbotNotRun
    /\ SimpleChatbotNotRun
    /\ AsyncNotRun

InitGrid ==
    /\ \E rows \in 1..MaxRows, cols \in 1..MaxCols :
         \E D \in SUBSET ((1..rows) \X (1..cols)) :
            LET g == BrickGrid_init(rows, cols, BRICK_WIDTH, BRICK_HEIGHT, START_X, START_Y)
            IN  bricks = [row \in 1..rows |-> [col \in 1..cols |->
                            IF <<row, col>> \in D THEN destroy(g[row][col]) ELSE g[row][col]]]
    /\ InitClass

InitBrick ==
    /\ bricks = BrickGrid_init(1, 1, BRICK_WIDTH, BRICK_HEIGHT, START_X, START_Y)
    /\ InitClass

GameUnchanged ==
    UNCHANGED <<ball, paddle, score, game_over, running, pc, key, over_at_key,
                reads, frames, restarts, tictactoe_vars, langchain_vars,
                   simplechatbot_vars, async_vars>>

\* grid.check_ball_collision(ball)
CallGridCheck ==
    /\ pc = "class"
    /\ LET res == BrickGrid_check_ball_collision(bricks, ball)
       IN  /\ bricks' = res.bricks
           /\ ret' = [op |-> "BrickGrid.check_ball_collision", val |-> res.hit]
    /\ GameUnchanged

\* grid.all_destroyed()
CallAllDestroyed ==
    /\ pc = "class"
    /\ ret' = [op |-> "all_destroyed", val |-> all_destroyed(bricks)]
    /\ UNCHANGED bricks
    /\ GameUnchanged

\* brick.check_ball_collision(ball) on one brick of the grid
CallBrickCheck ==
    /\ pc = "class"
    /\ \E c \in Cells(bricks) :
         ret' = [op |-> "Brick.check_ball_collision", at |-> c,
                 val |-> Brick_check_ball_collision(bricks[c[1]][c[2]], ball)]
    /\ UNCHANGED bricks
    /\ GameUnchanged

\* brick.destroy() on one brick of the grid; was: its flag before the call
CallDestroy ==
    /\ pc = "class"
    /\ \E c \in Cells(bricks) :
         /\ bricks' = [bricks EXCEPT ![c[1]][c[2]] = destroy(@)]
         /\ ret' = [op |-> "destroy", at |-> c, was |-> bricks[c[1]][c[2]].destroyed]
    /\ GameUnchanged

\* brick.is_destroyed() on one brick of the grid
CallIsDestroyed ==
    /\ pc = "class"
    /\ \E c \in Cells(bricks) :
         ret' = [op |-> "is_destroyed", at |-> c, val |-> is_destroyed(bricks[c[1]][c[2]])]
    /\ UNCHANGED bricks
    /\ GameUnchanged

NextGrid ==
    \/ CallGridCheck
    \/ CallAllDestroyed

NextBrick ==
    \/ CallGridCheck
    \/ CallAllDestroyed
    \/ CallBrickCheck
    \/ CallDestroy
    \/ CallIsDestroyed

SpecGrid == InitGrid /\ [][NextGrid]_vars

SpecBrick == InitBrick /\ [][NextBrick]_vars

(***************************************************************************)
(* Class-level runs of Ball.check_wall_collision and of the methods of     *)
(* Paddle, on the playfield of the game.  SpecWall: a ball placed beyond,  *)
(* on, next to or far from each of the four edges, moving in any of the    *)
(* four directions, and check_wall_collision called on it.  SpecPaddle: a  *)
(* ball placed around the edges of the paddle's rectangle, the paddle      *)
(* moved left and right, and check_ball_collision called.                  *)
(***************************************************************************)
WallBallXs ==
    {0 - 1, 2, BALL_RADIUS - 1, BALL_RADIUS, BALL_RADIUS + 1, BALL_X,
     WIDTH - BALL_RADIUS - 1, WIDTH - BALL_RADIUS, WIDTH - BALL_RADIUS + 1,
     WIDTH - 2, WIDTH + 3}

WallBallYs ==
    {0 - 2, 2, BALL_RADIUS - 1, BALL_RADIUS, BALL_RADIUS + 1, BALL_Y,
     HEIGHT - BALL_RADIUS - 1, HEIGHT - BALL_RADIUS, HEIGHT - BALL_RADIUS + 1,
     HEIGHT, HEIGHT + 3}

InitWall ==
    /\ \E x \in WallBallXs, y \in WallBallYs, dx \in BallDx, dy \in BallDx :
         ball = [Ball_init(x, y, BALL_RADIUS, dx) EXCEPT !.dy = dy]
    /\ paddle = NewPaddle
    /\ bricks = <<>>
    /\ score = 0
    /\ game_over = FALSE
    /\ running = TRUE
    /\ pc = "class"
    /\ key = ""
    /\ over_at_key = FALSE
    /\ reads = 0
    /\ frames = 0
    /\ restarts = 0
    /\ ret = [op |-> "none"]
    /\ TicTacToeNotRun
    /\ ChatbotNotRun
    /\ SimpleChatbotNotRun
    /\ AsyncNotRun

\* ball.check_wall_collision(width, height); ret keeps the ball as it was.
CallCheckWall ==
    /\ ball' = check_wall_collision(ball, WIDTH, HEIGHT)
    /\ ret' = [op |-> "check_wall_collision", was |-> ball]
    /\ UNCHANGED <<paddle, bricks, score, game_over, running, pc, key,
                   over_at_key, reads, frames, restarts,
                   tictactoe_vars, langchain_vars,
                   simplechatbot_vars, async_vars>>

\* ball.move()
CallMove ==
    /\ ret.op = "none"
    /\ ball' = move(ball)
    /\ ret' = [op |-> "move"]
    /\ UNCHANGED <<paddle, bricks, score, game_over, running, pc, key,
                   over_at_key, reads, frames, restarts,
                   tictactoe_vars, langchain_vars,
                   simplechatbot_vars, async_vars>>

NextWall ==
    \/ CallCheckWall
    \/ CallMove

SpecWall == InitWall /\ [][NextWall]_vars

PaddleBallXs ==
    {PADDLE_X - (PADDLE_WIDTH \div 2) - BALL_RADIUS - 1,
     PADDLE_X - (PADDLE_WIDTH \div 2) - BALL_RADIUS,
     PADDLE_X - (PADDLE_WIDTH \div 2) - 1,
     PADDLE_X - (PADDLE_WIDTH \div 2),
     PADDLE_X,
     PADDLE_X + (PADDLE_WIDTH \div 2),
     PADDLE_X + (PADDLE_WIDTH \div 2) + 1,
     PADDLE_X + (PADDLE_WIDTH \div 2) + BALL_RADIUS,
     PADDLE_X + (PADDLE_WIDTH \div 2) + BALL_RADIUS + 1}

PaddleBallYs ==
    {PADDLE_Y - (PADDLE_HEIGHT \div 2) - BALL_RADIUS - 1,
     PADDLE_Y - (PADDLE_HEIGHT \div 2) - BALL_RADIUS,
     PADDLE_Y - (PADDLE_HEIGHT \div 2),
     PADDLE_Y,
     PADDLE_Y + (PADDLE_HEIGHT \div 2),
     PADDLE_Y + (PADDLE_HEIGHT \div 2) + BALL_RADIUS,
     PADDLE_Y + (PADDLE_HEIGHT \div 2) + BALL_RADIUS + 1}

InitPaddle ==
    /\ \E x \in PaddleBallXs, y \in PaddleBallYs :
         ball = Ball_init(x, y, BALL_RADIUS, BALL_SPEED)
    /\ paddle = NewPaddle
    /\ bricks = <<>>
    /\ score = 0
    /\ game_over = FALSE
    /\ running = TRUE
    /\ pc = "class"
    /\ key = ""
    /\ over_at_key = FALSE
    /\ reads = 0
    /\ frames = 0
    /\ restarts = 0
    /\ ret = [op |-> "none"]
    /\ TicTacToeNotRun
    /\ ChatbotNotRun
    /\ SimpleChatbotNotRun
    /\ AsyncNotRun

\* paddle.check_ball_collision(ball)
CallPaddleCheck ==
    /\ ret' = [op |-> "Paddle.check_ball_collision",
               val |-> Paddle_check_ball_collision(paddle, ball)]
    /\ UNCHANGED <<ball, paddle, bricks, score, game_over, running, pc, key,
                   over_at_key, reads, frames, restarts,
                   tictactoe_vars, langchain_vars,
                   simplechatbot_vars, async_vars>>

\* paddle.move_left()
CallMoveLeft ==
    /\ paddle' = move_left(paddle)
    /\ ret' = [op |-> "move_left"]
    /\ UNCHANGED <<ball, bricks, score, game_over, running, pc, key,
                   over_at_key, reads, frames, restarts,
                   tictactoe_vars, langchain_vars,
                   simplechatbot_vars, async_vars>>

\* paddle.move_right(width)
CallMoveRight ==
    /\ paddle' = move_right(paddle, WIDTH)
    /\ ret' = [op |-> "move_right"]
    /\ UNCHANGED <<ball, bricks, score, game_over, running, pc, key,
                   over_at_key, reads, frames, restarts,
                   tictactoe_vars, langchain_vars,
                   simplechatbot_vars, async_vars>>

NextPaddle ==
    \/ CallPaddleCheck
    \/ CallMoveLeft
    \/ CallMoveRight

SpecPaddle == InitPaddle /\ [][NextPaddle]_vars


(***************************************************************************)
(* Runs of the tic-tac-toe scripts.  test_games.py starts a script as a    *)
(* subprocess and gives it a whole input; test_game_comparison gives both  *)
(* scripts the same one.  Here the two processes run side by side on one   *)
(* input: every input() of either script takes one line, so the n-th line  *)
(* reaches both at their n-th prompt, and the input may end after any      *)
(* line.                                                                   *)
(***************************************************************************)
\* main() of pong_game.py not called: no brick exists, and the other
\* variables of the game hold what the constructor would give them.
PongNotRun ==
    /\ ball = NewBall(BALL_SPEED)
    /\ paddle = NewPaddle
    /\ bricks = <<>>
    /\ running = TRUE
    /\ game_over = FALSE
    /\ score = 0
    /\ pc = "main"
    /\ key = ""
    /\ over_at_key = FALSE
    /\ reads = 0
    /\ frames = 0
    /\ restarts = 0
    /\ ret = [op |-> "none"]

\* The lines tried: the nine positions, 0 and 10 out of range, letters
\* (abc of the validation tests), and Y, a yes to the play-again prompt.
Lines ==
    {<<DigitChars[i]>> : i \in 1..Len(DigitChars)}
        \cup {<<"1", "0">>, <<"a", "b", "c">>, <<"Y">>}

InitTicTacToe ==
    /\ PongNotRun
    /\ TicTacToeNotRun
    /\ ChatbotNotRun
    /\ SimpleChatbotNotRun
    /\ AsyncNotRun

\* The next line of the input reaches the input() each process waits in.
Feed ==
    /\ ~stdin.closed
    /\ {lists.pc, dict.pc} \cap {"input", "play_again"} # {}
    /\ \E s \in Lines :
         /\ stdin' = [stdin EXCEPT !.line = s]
         /\ lists' = lists_input(lists, s)
         /\ dict' = dict_input(dict, s)
    /\ UNCHANGED <<pong_vars, ret, langchain_vars,
                   simplechatbot_vars, async_vars>>

\* The input ends: an input() that waits for a line raises EOFError.
EndOfInput ==
    /\ ~stdin.closed
    /\ stdin' = [stdin EXCEPT !.closed = TRUE]
    /\ lists' = lists_eof(lists)
    /\ dict' = dict_eof(dict)
    /\ UNCHANGED <<pong_vars, ret, langchain_vars,
                   simplechatbot_vars, async_vars>>

NextTicTacToe ==
    \/ Feed
    \/ EndOfInput

SpecTicTacToe == InitTicTacToe /\ [][NextTicTacToe]_vars

(***************************************************************************)
(* Runs of the session store: get_session_history is called with any of    *)
(* the session ids of the scripts and of their test, and messages are      *)
(* added to the history the last call returned, as the streaming chatbot   *)
(* does with session_history.                                              *)
(***************************************************************************)
SessionIds == {"streaming_user", "test_session", "different_session"}

MessageTypes == {"human", "ai"}

InitSession ==
    /\ PongNotRun
    /\ TicTacToeNotRun
    /\ ChatbotNotRun
    /\ SimpleChatbotNotRun
    /\ AsyncNotRun

\* history = get_session_history(session_id)
CallGetSessionHistory ==
    /\ \E session_id \in SessionIds :
         LET r == get_session_history(store, heap, session_id)
         IN  /\ store' = r.store
             /\ heap' = r.heap
             /\ ret' = [op |-> "get_session_history", session_id |-> session_id,
                        val |-> r.val]
    /\ UNCHANGED <<pong_vars, tictactoe_vars, simplechatbot_vars, async_vars>>

\* session_history.add_message(...) on the history returned last
CallAddMessage ==
    /\ ret.op = "get_session_history"
    /\ Len(heap[ret.val]) < MaxMessages
    /\ \E m \in MessageTypes :
         heap' = [heap EXCEPT ![ret.val] = add_message(@, m)]
    /\ UNCHANGED <<store, ret, pong_vars, tictactoe_vars,
                   simplechatbot_vars, async_vars>>

NextSession ==
    \/ CallGetSessionHistory
    \/ CallAddMessage

SpecSession == InitSession /\ [][NextSession]_vars

(***************************************************************************)
(* Runs of chatbot.py: "python chatbot.py interactive" (main) and          *)
(* "python chatbot.py stateless" (demonstrate_llm_statelessness).  The     *)
(* lines typed carry no surrounding blanks and no capitals, so strip() and *)
(* lower() leave them as they are.                                         *)
(***************************************************************************)
Modes == {"interactive", "stateless"}

\* What the user types at "You: ": a message, nothing, or an exit command.
UserInputs == {"hello", "what did i say?", "", "quit"}

\* What the model replies.
Replies == {"Hi!", "You said hello."}

\* Values of datetime.datetime.now().isoformat()
Times == {"t1", "t2"}

InitChat ==
    /\ argv \in Modes
    /\ \E t \in Times : conversation = create_new_conversation("uuid4", t)
    /\ api_request = NoRequest
    /\ assistant_message = ""
    /\ script = IF argv = "interactive" THEN <<[call |-> "input"]>>
                ELSE demonstrate_llm_statelessness
    /\ turns = IF argv = "interactive" THEN 0 ELSE 1
    /\ PongNotRun
    /\ TicTacToeNotRun
    /\ ChatbotNotRun
    /\ AsyncNotRun

\* One pass of "while True" of main up to the call of
\* process_conversation_turn: an exit command or Ctrl-C leaves the loop, an
\* empty line asks again, any other line starts a turn.
ReadInput ==
    /\ script # <<>>
    /\ Head(script).call = "input"
    /\ \/ /\ script' = <<>>
          /\ UNCHANGED turns
       \/ \E user_input \in UserInputs :
            IF user_input \in {"quit", "exit", "bye", "goodbye"}
            THEN script' = <<>> /\ UNCHANGED turns
            ELSE IF user_input = ""
            THEN UNCHANGED <<script, turns>>
            ELSE /\ turns < MaxTurns
                 /\ script' = process_conversation_turn(user_input) \o script
                 /\ turns' = turns + 1
    /\ UNCHANGED <<argv, conversation, api_request, assistant_message, ret>>
    /\ UNCHANGED <<pong_vars, tictactoe_vars, langchain_vars, async_vars>>

\* conversation = add_message_to_conversation(conversation, role, ...): the
\* user's message, or the assistant's message extracted last.
AddMessage ==
    /\ script # <<>>
    /\ Head(script).call = "add_message_to_conversation"
    /\ \E current_time \in Times :
         conversation' = add_message_to_conversation(
             conversation, Head(script).role,
             IF Head(script).role = "user" THEN Head(script).message
             ELSE assistant_message,
             current_time)
    /\ script' = Tail(script)
    /\ UNCHANGED <<argv, api_request, assistant_message, turns, ret>>
    /\ UNCHANGED <<pong_vars, tictactoe_vars, langchain_vars, async_vars>>

\* api_request = prepare_bedrock_request(conversation)
PrepareRequest ==
    /\ script # <<>>
    /\ Head(script).call = "prepare_bedrock_request"
    /\ api_request' = prepare_bedrock_request(conversation)
    /\ script' = Tail(script)
    /\ UNCHANGED <<argv, conversation, assistant_message, turns, ret>>
    /\ UNCHANGED <<pong_vars, tictactoe_vars, langchain_vars, async_vars>>

\* send_to_bedrock(client, request) followed by extract_response_content:
\* the request is api_request unless the call names another one.  When the
\* call raises, main's except leaves the loop and the demonstration ends
\* with the exception.
SendToBedrock ==
    /\ script # <<>>
    /\ Head(script).call = "send_to_bedrock"
    /\ LET request == IF "request" \in DOMAIN Head(script)
                      THEN Head(script).request ELSE api_request
       IN  ret' = [op |-> "send_to_bedrock", request |-> request,
                   conversation |-> conversation]
    /\ \/ \E text \in Replies :
            /\ assistant_message' = extract_response_content(bedrock_response(text))
            /\ script' = Tail(script)
       \/ /\ script' = <<>>
          /\ UNCHANGED assistant_message
    /\ UNCHANGED <<argv, conversation, api_request, turns>>
    /\ UNCHANGED <<pong_vars, tictactoe_vars, langchain_vars, async_vars>>

NextChat ==
    \/ ReadInput
    \/ AddMessage
    \/ PrepareRequest
    \/ SendToBedrock

SpecChat == InitChat /\ [][NextChat]_vars

(***************************************************************************)
(* Run of 10_async_operations.py from the entry of                         *)
(* demonstrate_batch_processing_with_limits to the end of                  *)
(* demonstrate_error_handling_patterns.                                    *)
(***************************************************************************)
InitAsync ==
    /\ tasks = <<>>
    /\ batch_start = 0
    /\ all_results = <<>>
    /\ async_pc = "for"
    /\ issued = <<>>
    /\ sleeps = 0
    /\ results = <<>>
    /\ successful = <<>>
    /\ failed = <<>>
    /\ PongNotRun
    /\ TicTacToeNotRun
    /\ ChatbotNotRun
    /\ SimpleChatbotNotRun

\* Mutant of CreateBatch: the slice has no upper end, batch = large_batch[i:].
CreateBatch_open_slice ==
    /\ async_pc = "for"
    /\ IF batch_start < Len(large_batch)
       THEN LET batch == SubSeq(large_batch, batch_start + 1, Len(large_batch))
                batch_num == (batch_start \div batch_size) + 1
            IN  /\ tasks' = [j \in 1..Len(batch) |->
                               [call_id |-> <<"batch", batch_num, "item", j - 1>>,
                                input |-> batch[j], state |-> "created"]]
                /\ async_pc' = "gather"
       ELSE /\ async_pc' = "summary"
            /\ UNCHANGED tasks
    /\ UNCHANGED <<batch_start, all_results, issued, sleeps, results, successful, failed>>
    /\ UNCHANGED <<pong_vars, tictactoe_vars, langchain_vars, simplechatbot_vars, ret>>

\* "for i in range(0, len(large_batch), batch_size)": the next batch is
\* sliced and its calls are created, or the loop ends.
CreateBatch ==
    /\ async_pc = "for"
    /\ IF batch_start < Len(large_batch)
       THEN LET last == IF batch_start + batch_size < Len(large_batch)
                        THEN batch_start + batch_size ELSE Len(large_batch)
                batch == SubSeq(large_batch, batch_start + 1, last)
                batch_num == (batch_start \div batch_size) + 1
            IN  /\ tasks' = [j \in 1..Len(batch) |->
                               [call_id |-> <<"batch", batch_num, "item", j - 1>>,
                                input |-> batch[j], state |-> "created"]]
                /\ async_pc' = "gather"
       ELSE /\ async_pc' = "summary"
            /\ UNCHANGED tasks
    /\ UNCHANGED <<batch_start, all_results, issued, sleeps, results, successful, failed>>
    /\ UNCHANGED <<pong_vars, tictactoe_vars, langchain_vars, simplechatbot_vars, ret>>

\* The event loop runs the next call of the gather up to its
\* "await chain.ainvoke(input_data)".
StartCall ==
    /\ async_pc \in {"gather", "gather_errors"}
    /\ \E k \in 1..Len(tasks) :
         /\ tasks[k].state = "created"
         /\ \A h \in 1..(k - 1) : tasks[h].state # "created"
         /\ tasks' = [tasks EXCEPT ![k].state = "in_flight"]
         /\ issued' = Append(issued, tasks[k].input)
    /\ UNCHANGED <<batch_start, all_results, async_pc, sleeps, results, successful, failed>>
    /\ UNCHANGED <<pong_vars, tictactoe_vars, langchain_vars, simplechatbot_vars, ret>>

\* A model call ends, in any order among those in flight, and its
\* async_llm_call returns.
FinishCall ==
    /\ \E k \in 1..Len(tasks), outcome \in Outcomes :
         /\ tasks[k].state = "in_flight"
         /\ tasks' = [tasks EXCEPT ![k] =
                [call_id |-> @.call_id, input |-> @.input, state |-> "done",
                 outcome |-> outcome,
                 result |-> async_llm_call(@.input, @.call_id, outcome)]]
    /\ UNCHANGED <<batch_start, all_results, async_pc, issued, sleeps,
                   results, successful, failed>>
    /\ UNCHANGED <<pong_vars, tictactoe_vars, langchain_vars, simplechatbot_vars, ret>>

\* "batch_results = await asyncio.gather(*tasks)" returns when every call
\* is done, with the results in the order of the calls;
\* all_results.extend(batch_results); then the test of the delay.
GatherBatch ==
    /\ async_pc = "gather"
    /\ \A k \in 1..Len(tasks) : tasks[k].state = "done"
    /\ all_results' = all_results \o [k \in 1..Len(tasks) |-> tasks[k].result]
    /\ IF batch_start + batch_size < Len(large_batch)
       THEN /\ async_pc' = "sleep"
            /\ UNCHANGED batch_start
       ELSE /\ async_pc' = "for"
            /\ batch_start' = batch_start + batch_size
    /\ UNCHANGED <<tasks, issued, sleeps, results, successful, failed>>
    /\ UNCHANGED <<pong_vars, tictactoe_vars, langchain_vars, simplechatbot_vars, ret>>

\* "await asyncio.sleep(1)", the end of the loop body.
BatchSleep ==
    /\ async_pc = "sleep"
    /\ sleeps' = sleeps + 1
    /\ batch_start' = batch_start + batch_size
    /\ async_pc' = "for"
    /\ UNCHANGED <<tasks, all_results, issued, results, successful, failed>>
    /\ UNCHANGED <<pong_vars, tictactoe_vars, langchain_vars, simplechatbot_vars, ret>>

\* The batch demonstration returns and
\* demonstrate_error_handling_patterns creates its calls.
CreateErrorTasks ==
    /\ async_pc = "summary"
    /\ tasks' = [i \in 1..Len(mixed_requests) |->
                   [call_id |-> <<"error_test", i - 1>>,
                    input |-> mixed_requests[i], state |-> "created"]]
    /\ all_results' = <<>>
    /\ batch_start' = 0
    /\ issued' = <<>>
    /\ sleeps' = 0
    /\ async_pc' = "gather_errors"
    /\ UNCHANGED <<results, successful, failed>>
    /\ UNCHANGED <<pong_vars, tictactoe_vars, langchain_vars, simplechatbot_vars, ret>>

\* "results = await asyncio.gather(*tasks, return_exceptions=True)" and the
\* loop that sorts the results into successful and failed.
GatherErrors ==
    /\ async_pc = "gather_errors"
    /\ \A k \in 1..Len(tasks) : tasks[k].state = "done"
    /\ results' = [k \in 1..Len(tasks) |-> tasks[k].result]
    /\ successful' = SelectSeq(results', LAMBDA r : r.success)
    /\ failed' = SelectSeq(results', LAMBDA r : ~r.success)
    /\ async_pc' = "done"
    /\ UNCHANGED <<tasks, batch_start, all_results, issued, sleeps>>
    /\ UNCHANGED <<pong_vars, tictactoe_vars, langchain_vars, simplechatbot_vars, ret>>

NextAsync ==
    \/ CreateBatch
    \/ StartCall
    \/ FinishCall
    \/ GatherBatch
    \/ BatchSleep
    \/ CreateErrorTasks
    \/ GatherErrors

SpecAsync == InitAsync /\ [][NextAsync]_vars

(***************************************************************************)
(* Properties.                                                             *)
(***************************************************************************)
Abs(n) == IF n < 0 THEN -n ELSE n

\* The cells of a grid whose brick is destroyed.
Destroyed(grid) == {c \in Cells(grid) : grid[c[1]][c[2]].destroyed}

\* The rectangle of brick k and the bounding box of ball b share a point.
Overlaps(k, b) ==
    /\ b.x + b.radius >= k.x
    /\ b.x - b.radius <= k.x + k.width
    /\ b.y + b.radius >= k.y
    /\ b.y - b.radius <= k.y + k.height

\* The cells of the live bricks of a grid that the ball overlaps.
LiveHits(grid, b) ==
    {c \in Cells(grid) : ~grid[c[1]][c[2]].destroyed /\ Overlaps(grid[c[1]][c[2]], b)}

\* A step that is a call of restart_game.
IsRestart == restarts' # restarts

\* update_game has run, in full, in the frame that is now ending.
UpdatedThisFrame == pc = "sleep" /\ reads = 1 /\ (~over_at_key \/ key = "r")

\* Exactly one brick goes from live to destroyed in this step and no other
\* brick changes.
OneBrickDestroyed ==
    /\ Cardinality(Destroyed(bricks') \ Destroyed(bricks)) = 1
    /\ Destroyed(bricks) \subseteq Destroyed(bricks')
    /\ \A c \in Cells(bricks) :
         [bricks'[c[1]][c[2]] EXCEPT !.destroyed = FALSE]
           = [bricks[c[1]][c[2]] EXCEPT !.destroyed = FALSE]

\* C1, as stated: over any sequence of frames and keys, r included, every
\* change of the score is an increase by exactly 10 that coincides with
\* exactly one brick going from live to destroyed, and the score is never
\* negative.
C1_ScoreOnlyIncreases ==
    [][/\ score >= 0 /\ score' >= 0
       /\ score' # score => score' = score + 10 /\ OneBrickDestroyed]_vars

\* C1, amended: restart_game sets the score to 0; every other change of the
\* score is an increase by exactly 10 that coincides with exactly one brick
\* going from live to destroyed, every brick that goes from live to
\* destroyed adds 10, and the score is never negative.
C1_ScoreStepsWithinAGame ==
    [][/\ score >= 0 /\ score' >= 0
       /\ IsRestart => score' = 0
       /\ ~IsRestart /\ score' # score => score' = score + 10 /\ OneBrickDestroyed
       /\ ~IsRestart /\ Destroyed(bricks') # Destroyed(bricks)
            => score' = score + 10 /\ OneBrickDestroyed]_vars

\* The brick step has just destroyed the first brick of a game: the score
\* is 10 and the ball still touches the one brick that is gone.
C1_Witness ==
    /\ pc = "loss"
    /\ score = 10
    /\ Cardinality(Destroyed(bricks)) = 1
    /\ \E c \in Destroyed(bricks) : Overlaps(bricks[c[1]][c[2]], ball)

\* C2: a tick of update_game ends with game_over set exactly when the ball
\* is then below the screen (y > height) or every brick is destroyed; the
\* bottom boundary never reflects the ball (at or below it no step but a
\* restart changes dy, and the wall step leaves y alone); once set,
\* game_over stays set on every step that is not a restart.
C2_GameOverStateMachine ==
    /\ [](UpdatedThisFrame =>
            (game_over <=> (ball.y > HEIGHT \/ Destroyed(bricks) = Cells(bricks))))
    /\ [][/\ ball.y + ball.radius >= HEIGHT /\ ~IsRestart =>
                /\ ball'.dy = ball.dy
                /\ pc = "wall" => ball'.y = ball.y
          /\ game_over /\ ~IsRestart => game_over']_vars

\* A tick has just ended the game by a win: the last brick went in it.
C2_Witness ==
    /\ UpdatedThisFrame
    /\ game_over
    /\ Destroyed(bricks) = Cells(bricks)
    /\ ball.y <= HEIGHT

\* C3: once check_wall_collision has run in a tick, and until the next
\* move, the ball's centre satisfies radius <= x <= width - radius and
\* y >= radius, and, while the ball is not below the bottom edge, lies in
\* [0, width] x [0, height].
C3_BallInsidePlayfield ==
    pc # "wall" =>
        /\ ball.radius <= ball.x /\ ball.x <= WIDTH - ball.radius
        /\ ball.radius <= ball.y
        /\ ~is_below_screen(ball, HEIGHT) =>
              /\ 0 <= ball.x /\ ball.x <= WIDTH
              /\ 0 <= ball.y /\ ball.y <= HEIGHT

\* check_wall_collision has just put a ball that had crossed the top wall
\* back at y = radius, moving down.
C3_Witness ==
    /\ pc = "paddle"
    /\ ball.y = ball.radius
    /\ ball.dy > 0

\* The paddle centred at x lies inside the playfield.
PaddleInPlayfield(x) ==
    /\ x - (PADDLE_WIDTH \div 2) >= 0
    /\ x + (PADDLE_WIDTH \div 2) <= WIDTH

\* Where the key read in this step asks the paddle to go.
PaddleTarget ==
    IF key' = "Left" THEN paddle.x - PADDLE_SPEED ELSE paddle.x + PADDLE_SPEED

\* C4: the paddle's x is within [step, screen_width - step] in every state;
\* a Left or Right key moves the paddle by the step when the paddle then
\* still lies inside the playfield, and otherwise leaves the paddle as it
\* is; nothing of the paddle but x ever changes.
C4_PaddleStaysInside ==
    /\ [](PADDLE_SPEED <= paddle.x /\ paddle.x <= WIDTH - PADDLE_SPEED)
    /\ [][/\ pc = "input" /\ pc' # "closed" /\ key' \in {"Left", "Right"} =>
               paddle' = [paddle EXCEPT !.x = IF PaddleInPlayfield(PaddleTarget)
                                              THEN PaddleTarget ELSE paddle.x]
          /\ [paddle' EXCEPT !.x = 0] = [paddle EXCEPT !.x = 0]]_vars

\* A Left key has just been refused: the paddle was at its left stop when
\* the frame began and is still there.
C4_Witness ==
    /\ frames = 0
    /\ restarts = 0
    /\ reads = 1
    /\ key = "Left"
    /\ paddle.x = AtLeftWall.paddle_x
    /\ ~PaddleInPlayfield(paddle.x - PADDLE_SPEED)

\* C5: |dx| = 3 and |dy| = 3 in every state of a game.
C5_SpeedIsConstant == Abs(ball.dx) = 3 /\ Abs(ball.dy) = 3

\* The paddle step has just bounced the ball: it touches the paddle and
\* moves up.
C5_Witness ==
    /\ pc = "brick"
    /\ Paddle_check_ball_collision(paddle, ball)
    /\ ball.dy = -3

\* C6: a destroyed brick stays destroyed under every call on it or on its
\* grid, and destroy() on a destroyed brick changes nothing.
C6_DestroyedForGood ==
    [][/\ \A c \in Cells(bricks) :
            is_destroyed(bricks[c[1]][c[2]]) => is_destroyed(bricks'[c[1]][c[2]])
       /\ ret'.op = "destroy" /\ ret'.was => bricks' = bricks]_vars

\* destroy() has just been called on a brick that was destroyed already.
C6_Witness ==
    /\ ret.op = "destroy"
    /\ ret.was
    /\ is_destroyed(bricks[ret.at[1]][ret.at[2]])

\* The first cell, in row-major order, of a non-empty set of cells.
FirstRowMajor(S) ==
    CHOOSE c \in S : \A d \in S : c[1] < d[1] \/ (c[1] = d[1] /\ c[2] <= d[2])

\* C7: BrickGrid.check_ball_collision returns False and changes nothing when
\* no live brick overlaps the ball's bounding box; otherwise it returns True
\* and destroys the first overlapping live brick in row-major order, that
\* brick only.
C7_FirstHitOnly ==
    [][ret'.op = "BrickGrid.check_ball_collision" =>
         IF LiveHits(bricks, ball) = {}
         THEN ret'.val = FALSE /\ bricks' = bricks
         ELSE LET c == FirstRowMajor(LiveHits(bricks, ball))
              IN  /\ ret'.val = TRUE
                  /\ bricks' = [bricks EXCEPT ![c[1]][c[2]].destroyed = TRUE]]_vars

\* check_ball_collision has just returned True and a live brick still
\* overlaps the ball: the ball touched several live bricks and one went.
C7_Witness ==
    /\ ret.op = "BrickGrid.check_ball_collision"
    /\ ret.val = TRUE
    /\ LiveHits(bricks, ball) # {}

\* C8: all_destroyed() returns True if and only if every brick of the grid
\* is destroyed, whatever the set of destroyed bricks.
C8_AllDestroyedIffEvery ==
    ret.op = "all_destroyed" =>
        (ret.val <=> \A c \in Cells(bricks) : is_destroyed(bricks[c[1]][c[2]]))

\* all_destroyed() has just returned True on a grid of several rows.
C8_Witness ==
    /\ ret.op = "all_destroyed"
    /\ ret.val = TRUE
    /\ Len(bricks) > 1
    /\ Len(bricks[1]) > 1

\* The steps of update_game in the order of C9, and the step after each.
C9_Order == <<"move", "wall", "paddle", "brick", "loss", "win", "sleep">>

C9_After(step) ==
    C9_Order[(CHOOSE i \in 1..(Len(C9_Order) - 1) : C9_Order[i] = step) + 1]

IsNewGame ==
    /\ ~game_over
    /\ running
    /\ score = 0
    /\ ball.x = 400 /\ ball.y = 300 /\ ball.radius = 10
    /\ ball.dy = 3 /\ Abs(ball.dx) = 3
    /\ paddle.x = 400 /\ paddle.y = 550
    /\ Len(bricks) = 5
    /\ \A row \in 1..Len(bricks) : Len(bricks[row]) = 10
    /\ Destroyed(bricks) = {}

\* C10: when r is read while the game is over, the game is running again
\* in the initial state once the key is handled: game_over false, score 0,
\* a new ball at (400, 300) moving down, the paddle at (400, 550), all
\* 5 x 10 bricks live; and it is not over again when that frame ends.
C10_RestartFromGameOver ==
    key = "r" /\ over_at_key =>
        /\ pc = "move" => IsNewGame
        /\ ~game_over

\* r has just been handled in a game that was over.
C10_Witness ==
    /\ pc = "move"
    /\ key = "r"
    /\ over_at_key
    /\ restarts = 1

(***************************************************************************)
(* Properties of the tic-tac-toe scripts.                                  *)
(***************************************************************************)
\* The two processes.
Programs == {"lists", "dict"}

Process(p) == IF p = "lists" THEN lists ELSE dict

\* What the board of process p holds at position n of 1..9.
CellAt(p, n) ==
    IF p = "lists" THEN lists.board[((n - 1) \div 3) + 1][((n - 1) % 3) + 1]
    ELSE dict.board[n]

\* The 3 rows, the 3 columns and the 2 diagonals.
WinLines ==
    {{1, 2, 3}, {4, 5, 6}, {7, 8, 9}, {1, 4, 7}, {2, 5, 8}, {3, 6, 9},
     {1, 5, 9}, {3, 5, 7}}

\* The marks that fill a whole line of the board of process p.
LineMarks(p) == {m \in Marks : \E L \in WinLines : \A n \in L : CellAt(p, n) = m}

\* The player who made move number k of a game: X moves first.
Mover(k) == IF k % 2 = 1 THEN "X" ELSE "O"

\* C11: the two scripts behave identically on the same input: after every
\* line both have accepted or rejected it alike (same message), cell
\* (row, col) of the lists board equals key 3*row+col+1 of the dict board,
\* the current player and the number of moves are the same, and the same
\* result (X, O or Tie) is declared after the same number of moves.
C11_SameBehaviour ==
    /\ \A row \in 0..2, col \in 0..2 :
         lists.board[row + 1][col + 1] = dict.board[3 * row + col + 1]
    /\ lists.current_player = dict.current_player
    /\ lists.moves_made = dict.moves_made
    /\ lists.game_over = dict.game_over
    /\ lists.winner = dict.winner
    /\ lists.announced = dict.announced
    /\ lists.pc # "exit" => lists.msg = dict.msg

\* Both scripts have declared O the winner after eight moves.
C11_Witness ==
    /\ lists.winner = "O"
    /\ dict.winner = "O"
    /\ lists.moves_made = 8
    /\ dict.moves_made = 8
    /\ lists.announced = "O"
    /\ dict.announced = "O"

\* C12 (as stated): when the input is exactly the moves of a finished game,
\* each script terminates normally, without an EOFError at the end of the
\* input, and has announced the winner of that game.
C12_BothExitNormally ==
    stdin.closed /\ lists.game_over /\ dict.game_over =>
        \A p \in Programs :
            /\ Process(p).pc # "EOFError"
            /\ Process(p).announced =
                 (IF LineMarks(p) # {} THEN CHOOSE m \in LineMarks(p) : TRUE
                  ELSE "Tie")

str(n) == IF n = 10 THEN <<"1", "0">> ELSE <<DigitChars[n + 1]>>

\* The message line s must be rejected with on the board of process p,
\* "" when s is no such line.
Rejection(p, s) ==
    IF \A n \in 0..10 : str(n) # s THEN MSG_NUMBER
    ELSE IF s \in {str(0), str(10)} THEN MSG_RANGE
    ELSE IF \E n \in 1..9 : str(n) = s /\ CellAt(p, n) \in Marks THEN MSG_TAKEN
    ELSE ""

\* C15: a line that is not a number, is outside 1..9 or names a cell that
\* holds X or O is rejected with its message and the script prompts again:
\* board, moves_made and current player are as before; and no step of
\* either script changes a cell that holds X or O.
C15_RejectedInputChangesNothing ==
    [][\A p \in Programs :
         /\ ~stdin'.closed /\ Process(p).pc = "input"
                /\ Rejection(p, stdin'.line) # "" =>
              /\ Process(p)'.msg = Rejection(p, stdin'.line)
              /\ Process(p)'.pc = "input"
              /\ Process(p)'.board = Process(p).board
              /\ Process(p)'.moves_made = Process(p).moves_made
              /\ Process(p)'.current_player = Process(p).current_player
         /\ \A n \in 1..9 :
              CellAt(p, n) \in Marks => CellAt(p, n)' = CellAt(p, n)]_vars

\* Position 5 was just asked for a second time, and both scripts answered
\* that it is taken.
C15_Witness ==
    /\ stdin.line = str(5)
    /\ ~stdin.closed
    /\ \A p \in Programs :
         /\ Process(p).msg = MSG_TAKEN
         /\ CellAt(p, 5) = "X"
         /\ Process(p).moves_made = 2

(***************************************************************************)
(* Properties of the session store.                                        *)
(***************************************************************************)
\* The history objects the store holds.
Stored(st) == {st[s] : s \in DOMAIN st}

\* C16: get_session_history is insert-if-absent, return reference: a call
\* with a session id the store does not know inserts one new empty history
\* under that id and returns it, leaving every other entry and history as
\* it was; a call with a known id returns the very object the store holds
\* for it and changes neither the store nor any history; and distinct ids
\* always map to distinct histories.
C16_InsertIfAbsent ==
    /\ [](\A s, t \in DOMAIN store : s # t => store[s] # store[t])
    /\ [][(store' # store \/ ret' # ret) /\ ret'.op = "get_session_history" =>
            IF ret'.session_id \notin DOMAIN store
            THEN /\ DOMAIN store' = DOMAIN store \cup {ret'.session_id}
                 /\ \A s \in DOMAIN store : store'[s] = store[s]
                 /\ store'[ret'.session_id] = ret'.val
                 /\ ret'.val \notin 1..Len(heap)
                 /\ Len(heap') = Len(heap) + 1
                 /\ heap'[ret'.val] = <<>>
                 /\ \A o \in 1..Len(heap) : heap'[o] = heap[o]
            ELSE /\ store' = store
                 /\ heap' = heap
                 /\ ret'.val = store[ret'.session_id]]_vars

\* Every session id is in the store, two of the histories hold messages,
\* and the last call returned the history of a known id with its messages.
C16_Witness ==
    /\ DOMAIN store = SessionIds
    /\ ret.op = "get_session_history"
    /\ ret.val = store[ret.session_id]
    /\ heap[ret.val] # <<>>
    /\ \E s \in SessionIds : s # ret.session_id /\ heap[store[s]] # <<>>

(***************************************************************************)
(* Properties of the game loop and of the collision tests.                 *)
(***************************************************************************)
\* The places of a frame that lie inside update_game.
UpdateSteps == {"move", "wall", "paddle", "brick", "loss", "win"}

\* C17 (as stated): in a frame that begins with game_over true, update_game
\* is not called, and after the key handling of the frame nothing changes
\* the ball, the bricks or the score.
C17_NoUpdateInGameOverFrame ==
    /\ [](over_at_key => pc \notin UpdateSteps)
    /\ [][over_at_key /\ pc # "input" => UNCHANGED <<ball, bricks, score>>]_vars

\* C17 (amended): when game_over is true after the key handling of a frame,
\* the frame goes straight to its sleep: update_game is not called, the
\* ball, the bricks, the score and game_over are as the frame found them,
\* the paddle changes only on Left or Right and the running flag only on
\* q.  When game_over is false after the key handling, update_game runs,
\* and that is also so in a frame that found game_over true and read r.
C17_NoUpdateWhenOverAfterKeys ==
    /\ [](over_at_key /\ key # "r" => pc \notin UpdateSteps)
    /\ [][pc = "input" /\ pc' # "closed" =>
            /\ pc' = (IF game_over' THEN "sleep" ELSE "move")
            /\ game_over' =>
                 /\ game_over
                 /\ UNCHANGED <<ball, bricks, score>>
                 /\ paddle' # paddle => key' \in {"Left", "Right"}
                 /\ running' # running => key' = "q"
            /\ game_over /\ key' = "r" => pc' = "move" /\ IsRestart]_vars

\* A frame that found the game over moved the paddle and skipped the
\* update.
C17_Witness ==
    /\ pc = "sleep"
    /\ game_over
    /\ over_at_key
    /\ key = "Left"
    /\ paddle.x # PADDLE_X

\* C18: q only sets the running flag to false; the frame that reads q
\* still runs its update step when the game is not over; once the flag is
\* false no further key is read, no update runs outside that frame, and
\* the while test that follows the frame leaves the loop.
C18_QuitBetweenFrames ==
    /\ [](~running /\ pc \in UpdateSteps => key = "q" /\ ~over_at_key)
    /\ [][/\ pc = "input" /\ pc' # "closed" /\ key' = "q" =>
                /\ ~running'
                /\ UNCHANGED <<ball, paddle, bricks, score, game_over>>
                /\ pc' = (IF game_over THEN "sleep" ELSE "move")
          /\ ~running =>
                /\ reads' # reads + 1
                /\ ~running'
                /\ pc = "input" => pc' = "closed"
                /\ pc = "closed" => UNCHANGED vars]_vars

\* The frame that read q during play has run its update, and the running
\* flag is false.
C18_Witness ==
    /\ UpdatedThisFrame
    /\ key = "q"
    /\ ~over_at_key
    /\ ~running

\* C19: check_wall_collision clamps and bounces at the left, right and top
\* boundaries and nowhere else: x - radius <= 0 gives x = radius and dx
\* negated, x + radius >= width gives x = width - radius and dx negated,
\* y - radius <= 0 gives y = radius and dy negated; the bottom boundary
\* changes nothing, and a ball touching no boundary is left unchanged.
C19_ThreeWalls ==
    ret.op = "check_wall_collision" =>
        LET b == ret.was
            left == b.x - b.radius <= 0
            right == b.x + b.radius >= WIDTH
            top == b.y - b.radius <= 0
        IN  /\ left => ball.x = b.radius /\ ball.dx = 0 - b.dx
            /\ right => ball.x = WIDTH - b.radius /\ ball.dx = 0 - b.dx
            /\ top => ball.y = b.radius /\ ball.dy = 0 - b.dy
            /\ ~left /\ ~right => ball.x = b.x /\ ball.dx = b.dx
            /\ ~top => ball.y = b.y /\ ball.dy = b.dy
            /\ ball.radius = b.radius

\* The ball at (2, 300) moving left was put at x = 10 with dx = +3, its y
\* and dy untouched.
C19_Witness ==
    /\ ret.op = "check_wall_collision"
    /\ ret.was.x = 2
    /\ ret.was.y = BALL_Y
    /\ ret.was.dx = 0 - BALL_SPEED
    /\ ball.x = BALL_RADIUS
    /\ ball.dx = BALL_SPEED
    /\ ball.y = BALL_Y

\* C20: Paddle.check_ball_collision is true exactly when the ball's
\* vertical span [y - r, y + r] overlaps the paddle's vertical band
\* [py - h/2, py + h/2] and the ball's centre x lies in the paddle's
\* horizontal span [px - w/2, px + w/2], whatever the radius; and the call
\* changes neither the ball nor the paddle.
C20_PaddleHitTest ==
    /\ [](ret.op = "Paddle.check_ball_collision" =>
            (ret.val <=>
                /\ (ball.y - ball.radius)..(ball.y + ball.radius)
                     \cap (paddle.y - (paddle.height \div 2))..(paddle.y + (paddle.height \div 2))
                       # {}
                /\ ball.x \in (paddle.x - (paddle.width \div 2))..(paddle.x + (paddle.width \div 2))))
    /\ [][ret'.op = "Paddle.check_ball_collision" =>
            UNCHANGED <<ball, paddle>>]_vars

\* The test has just returned False for a ball level with the paddle whose
\* centre is one pixel beyond the paddle's right end, so that the ball's
\* disc reaches over the paddle.
C20_Witness ==
    /\ ret.op = "Paddle.check_ball_collision"
    /\ ret.val = FALSE
    /\ ball.y = paddle.y
    /\ ball.x = paddle.x + (paddle.width \div 2) + 1

(***************************************************************************)
(* Further properties of the bricks and of the score.                      *)
(***************************************************************************)
\* C21 (as stated): a grid collision check repeated with the same ball
\* returns True once and False afterwards.
C21_TrueOnceThenFalse ==
    [][/\ ret.op = "BrickGrid.check_ball_collision"
       /\ ret.val = TRUE
       /\ ret'.op = "BrickGrid.check_ball_collision"
       => ret'.val = FALSE]_vars

\* C21 (amended): a destroyed brick is inert: Brick.check_ball_collision is
\* False on it for every ball position; a grid collision check returns
\* True only by destroying one live brick the ball overlaps, so repeated
\* with the same ball it returns True once for each such brick and False
\* from then on, and never because of a destroyed brick.
C21_DestroyedBrickInert ==
    /\ [](\A c \in Destroyed(bricks) : \A x \in GridBallXs, y \in GridBallYs :
            ~Brick_check_ball_collision(bricks[c[1]][c[2]],
                                        Ball_init(x, y, BALL_RADIUS, BALL_SPEED)))
    /\ [][ret'.op = "BrickGrid.check_ball_collision" =>
            /\ ret'.val <=> Destroyed(bricks') # Destroyed(bricks)
            /\ Destroyed(bricks') \ Destroyed(bricks) \subseteq LiveHits(bricks, ball)
            /\ LiveHits(bricks, ball) = {} => ret'.val = FALSE
            /\ Cardinality(LiveHits(bricks', ball))
                 = Cardinality(LiveHits(bricks, ball)) - (IF ret'.val THEN 1 ELSE 0)]_vars

\* The grid check has just returned False although the ball overlaps
\* bricks of the grid: every one of them is destroyed.
C21_Witness ==
    /\ ret.op = "BrickGrid.check_ball_collision"
    /\ ret.val = FALSE
    /\ Cardinality({c \in Destroyed(bricks) : Overlaps(bricks[c[1]][c[2]], ball)}) >= 2

\* C27: in every reachable state of the game the score is POINTS times the
\* number of destroyed bricks of the current grid, restarts included; so the
\* score never exceeds POINTS * ROWS * COLS and a won game shows exactly that.
C27_ScoreCountsDestroyedBricks ==
    /\ score = POINTS * Cardinality(Destroyed(bricks))
    /\ score <= POINTS * ROWS * COLS
    /\ (game_over /\ all_destroyed(bricks) => score = POINTS * ROWS * COLS)

\* The last brick has just been destroyed and the win has been detected.
C27_Witness ==
    /\ pc = "sleep"
    /\ game_over
    /\ all_destroyed(bricks)
    /\ score = POINTS * ROWS * COLS
    /\ Cardinality(Destroyed(bricks)) = ROWS * COLS

\* A restart after points were scored: the new grid is whole and the score 0.
C27_WitnessRestart ==
    /\ restarts > 0
    /\ score = 0
    /\ Destroyed(bricks) = {}

\* C28 (as stated): whenever the paddle collision test of update_game
\* succeeds, the ball leaves that tick moving upward (dy < 0), also when the
\* paddle was moved sideways under a ball already inside its vertical band.
C28_PaddleHitSendsBallUp ==
    [][/\ pc = "paddle"
       /\ Paddle_check_ball_collision(paddle, ball)
       => ball'.dy < 0]_vars

\* The positions of the board of process p that hold the mark m.
Held(p, m) == {n \in 1..9 : CellAt(p, n) = m}

\* C25: X moves first and the players alternate strictly: in each script
\* the current player changes on exactly the accepted moves that do not end
\* the game, the player to move is X at even and O at odd move counts, and
\* the number of X marks minus the number of O marks is always 0 or 1.
C25_PlayersAlternate ==
    /\ [](\A p \in Programs :
            /\ Cardinality(Held(p, "X")) - Cardinality(Held(p, "O")) \in {0, 1}
            /\ ~Process(p).game_over =>
                  Process(p).current_player = Mover(Process(p).moves_made + 1))
    /\ [][\A p \in Programs :
            Process(p)'.current_player # Process(p).current_player
              <=> /\ Process(p)'.moves_made = Process(p).moves_made + 1
                  /\ ~Process(p)'.game_over]_vars

\* Three moves have been accepted in both scripts and it is O's turn.
C25_Witness ==
    \A p \in Programs :
        /\ Process(p).moves_made = 3
        /\ Process(p).current_player = "O"
        /\ ~Process(p).game_over
        /\ Cardinality(Held(p, "X")) = 2
        /\ Cardinality(Held(p, "O")) = 1

\* C26: the fastest win takes 5 accepted moves and every game ends after at
\* most 9: game_over is never true after fewer than 5 accepted moves, is
\* always true after the ninth, and no tenth move is ever accepted.
C26_GameLength ==
    \A p \in Programs :
        /\ Process(p).game_over => Process(p).moves_made >= 5
        /\ Process(p).moves_made = 9 => Process(p).game_over
        /\ Process(p).moves_made <= 9
        /\ (Process(p).game_over /\ Process(p).moves_made < 9) =>
              Process(p).winner \in Marks

\* 'Minimum Moves Win': both scripts have declared X the winner after 5
\* accepted moves.
C26_Witness ==
    \A p \in Programs :
        /\ Process(p).game_over
        /\ Process(p).moves_made = 5
        /\ Process(p).winner = "X"

\* Both scripts have ended a game with the ninth move.
C26_WitnessNine ==
    \A p \in Programs : Process(p).game_over /\ Process(p).moves_made = 9

\* C29: between turns moves_made is the number of cells that hold X or O;
\* a step of a script either leaves the board and moves_made alone or adds
\* 1 to moves_made and changes exactly one cell, from its digit to the mark
\* of the player whose turn it was.
C29_MovesMadeCountsMarks ==
    /\ [](\A p \in Programs :
            Process(p).moves_made
              = Cardinality(Held(p, "X")) + Cardinality(Held(p, "O")))
    /\ [][\A p \in Programs :
            \/ /\ Process(p)'.board = Process(p).board
               /\ Process(p)'.moves_made = Process(p).moves_made
            \/ /\ Process(p)'.moves_made = Process(p).moves_made + 1
               /\ \E n \in 1..9 :
                    /\ {m \in 1..9 : CellAt(p, m)' # CellAt(p, m)} = {n}
                    /\ <<CellAt(p, n)>> = str(n)
                    /\ CellAt(p, n)' = Process(p).current_player]_vars

\* A game that X has won with the seventh accepted move, in both scripts.
C29_Witness ==
    \A p \in Programs :
        /\ Process(p).moves_made = 7
        /\ Process(p).winner = "X"
        /\ Cardinality(Held(p, "X")) = 4
        /\ Cardinality(Held(p, "O")) = 3

(***************************************************************************)
(* Properties of the educational chatbot.                                  *)
(***************************************************************************)
\* The request holds one API message per message of the conversation conv,
\* in the same order, with the same role and the same text.
WholeHistory(request, conv) ==
    /\ Len(request.messages) = Len(conv.messages)
    /\ \A k \in 1..Len(conv.messages) :
         /\ request.messages[k].role = conv.messages[k].role
         /\ Len(request.messages[k].content) = 1
         /\ request.messages[k].content[1].text = conv.messages[k].content

\* C22 (as stated): every API request includes the entire conversation
\* history as it is when the request is sent.
C22_EveryRequestWholeHistory ==
    ret.op = "send_to_bedrock" => WholeHistory(ret.request, ret.conversation)

\* C22 (amended): prepare_bedrock_request returns one API message per
\* stored message, in the same order and with the same role and text, and
\* leaves the conversation as it is; every request sent in interactive
\* mode, and every request sent that prepare_bedrock_request built, holds
\* the entire history of the moment it is sent.
C22_PreparedRequestWholeHistory ==
    /\ [](ret.op = "send_to_bedrock" /\ (argv = "interactive" \/ ret.request = api_request)
            => WholeHistory(ret.request, ret.conversation))
    /\ [][script # <<>> /\ Head(script).call = "prepare_bedrock_request"
            => /\ WholeHistory(api_request', conversation)
               /\ conversation' = conversation]_vars

\* The request of a second interactive turn has been sent: three messages.
C22_Witness ==
    /\ argv = "interactive"
    /\ ret.op = "send_to_bedrock"
    /\ ret.request = api_request
    /\ Len(ret.request.messages) = 3
    /\ ret.request.messages[2].role = "assistant"
    /\ ret.request.messages[3].content[1].text = ret.conversation.messages[3].content

\* C30: metadata.total_messages is the length of the messages list; a step
\* appends at most one message and never changes or removes an earlier one;
\* at the prompt of interactive mode each turn so far has added exactly two
\* messages, the user's and then the assistant's.
C30_MessagesOnlyAppended ==
    /\ [](conversation.metadata.total_messages = Len(conversation.messages))
    /\ [](argv = "interactive" /\ script # <<>> /\ Head(script).call = "input"
            => /\ Len(conversation.messages) = 2 * turns
               /\ \A k \in 1..turns :
                    /\ conversation.messages[2 * k - 1].role = "user"
                    /\ conversation.messages[2 * k].role = "assistant")
    /\ [][/\ Len(conversation'.messages) \in
               {Len(conversation.messages), Len(conversation.messages) + 1}
          /\ SubSeq(conversation'.messages, 1, Len(conversation.messages))
               = conversation.messages]_vars

\* Two interactive turns are complete and the prompt is shown again.
C30_Witness ==
    /\ argv = "interactive"
    /\ script # <<>>
    /\ Head(script).call = "input"
    /\ turns = 2
    /\ conversation.metadata.total_messages = 4
    /\ conversation.messages[3].role = "user"
    /\ conversation.messages[4].role = "assistant"

(***************************************************************************)
(* Properties of the asynchronous demonstrations.                          *)
(***************************************************************************)
\* The calls of the current gather that await their model call.
InFlight == {k \in 1..Len(tasks) : tasks[k].state = "in_flight"}

\* The number of batches of the batch demonstration.
Batches == (Len(large_batch) + batch_size - 1) \div batch_size

\* C23: the batch demonstration processes its 10 requests in order in
\* batches of at most 3, one batch at a time: at most 3 calls are in flight,
\* the requests are issued in the order of the list, each once, a request
\* is issued only when every request of the earlier batches has its result,
\* the results are in request order, one per request, 4 batches run, and
\* asyncio.sleep(1) is called after every batch but the last.
C23_BatchesOfThree ==
    /\ [](async_pc \in {"for", "gather", "sleep", "summary"} =>
            /\ Len(large_batch) = 10 /\ batch_size = 3 /\ Batches = 4
            /\ Len(tasks) <= batch_size
            /\ Cardinality(InFlight) <= batch_size
            /\ Len(issued) <= Len(large_batch)
            /\ \A k \in 1..Len(issued) : issued[k] = large_batch[k]
            /\ Len(all_results) <= Len(issued)
            /\ \A k \in 1..Len(all_results) :
                 /\ all_results[k].input = large_batch[k]
                 /\ all_results[k].call_id =
                      <<"batch", ((k - 1) \div batch_size) + 1, "item", (k - 1) % batch_size>>
            /\ issued # <<>> =>
                 Len(all_results) >= batch_size * ((Len(issued) - 1) \div batch_size)
            /\ sleeps = IF Len(all_results) = Len(large_batch) THEN Batches - 1
                        ELSE IF async_pc = "sleep" THEN (batch_start \div batch_size)
                        ELSE Len(all_results) \div batch_size
            /\ async_pc = "summary" =>
                 /\ Len(all_results) = Len(large_batch)
                 /\ Len(issued) = Len(large_batch)
                 /\ all_results[Len(all_results)].call_id[2] = Batches
                 /\ sleeps = Batches - 1)
    /\ [][sleeps' = sleeps + 1 =>
            /\ Len(all_results) < Len(large_batch)
            /\ Len(all_results) = batch_start + batch_size
            /\ InFlight = {}]_vars

\* The batch demonstration is at its summary: ten results, some failed.
C23_Witness ==
    /\ async_pc = "summary"
    /\ Len(all_results) = 10
    /\ sleeps = 3
    /\ ~all_results[5].success
    /\ all_results[10].success
    /\ all_results[10].call_id = <<"batch", 4, "item", 0>>

\* C24: one failure does not stop the others.  async_llm_call returns a
\* dictionary for every call: success True with the response, or success
\* False with the text of the exception the model call raised.  The gather
\* of the error handling demonstration yields one dictionary per request,
\* in request order, and successful and failed together hold them all.
C24_FailuresAreResults ==
    /\ \A k \in 1..Len(tasks) :
         tasks[k].state = "done" =>
           /\ tasks[k].result.call_id = tasks[k].call_id
           /\ tasks[k].result.input = tasks[k].input
           /\ tasks[k].result.success = ~tasks[k].outcome.raised
           /\ tasks[k].outcome.raised =>
                /\ tasks[k].result.error = tasks[k].outcome.exception.message
                /\ "response" \notin DOMAIN tasks[k].result
    /\ async_pc = "done" =>
         /\ Len(results) = Len(mixed_requests)
         /\ \A k \in 1..Len(results) :
              /\ results[k] = tasks[k].result
              /\ results[k].input = mixed_requests[k]
              /\ results[k].call_id = <<"error_test", k - 1>>
         /\ Len(successful) + Len(failed) = Len(mixed_requests)
         /\ \A k \in 1..Len(successful) : successful[k].success
         /\ \A k \in 1..Len(failed) : ~failed[k].success

\* The error handling demonstration has ended: the second and the fourth
\* request failed, the three others succeeded.
C24_Witness ==
    /\ async_pc = "done"
    /\ Len(results) = 5
    /\ ~results[2].success
    /\ results[2].error = "Malformed input request"
    /\ ~results[4].success
    /\ results[1].success /\ results[3].success /\ results[5].success
    /\ Len(successful) = 3
    /\ Len(failed) = 2

====
